---- MODULE Spec2Model ----
(***************************************************************************)
(* Conversational orchestration layer of the messaging assistant:          *)
(*   - MessageBufferService (debounce aggregator)                          *)
(*       src/src/services/audioTranscriptionService.js                     *)
(*   - HumanHandoffService  (pause manager)                                *)
(*       src/src/services/humanHandoffService.js                           *)
(*   - SurveyService        (survey flow engine)                           *)
(*       src/src/services/surveyService.js                                 *)
(*   - processMessage       (conversation mode router)  src/src/app.js     *)
(*                                                                         *)
(* Text is a sequence of one-character strings, so that trim, toLowerCase, *)
(* includes, join and replace(/\D/g,'') are computed, not assumed.         *)
(* Time is in milliseconds.                                                *)
(***************************************************************************)
EXTENDS Integers, Sequences, FiniteSets, TLC

VARIABLES
    now,            \* Date.now()
    \* ---- MessageBufferService
    waitTimeMs,     \* config.waitTimeMs (setConfig at start-up)
    buffers,        \* this.buffers: key -> buffer record or NoBuffer
    timers,         \* the runtime's armed setTimeout callbacks
    promises,       \* the promise returned by the i-th addMessage call
    calls,          \* log of the addMessage calls (key, text, branch taken, timing)
    arrivals,       \* per key: when its latest call and the first call of its
                    \* latest PendingTurn arrived (log; -1: none, or cancelled)
    cancelled,      \* promises whose PendingTurn cancelBuffer discarded (log)
    \* ---- HumanHandoffService
    pausedChats,    \* this.pausedChats: clean number -> pause record or NoPause
    adminWhatsapp,  \* config.adminWhatsapp
    pauseMinutes,   \* config.pauseMinutes
    \* ---- SurveyService and its sheets
    activeSurveys,  \* this.activeSurveys: sender -> session or NoSurvey
    questions,      \* this.questions
    sheetQuestions, \* row 1 of the sheet Encuesta_Preguntas
    responses,      \* rows appended to the sheet Encuesta_Respuestas
    \* ---- router
    blacklist,      \* column A of the sheet BlackList
    turns,          \* the processMessage invocations, each with its position
    \* ---- ScheduledMessagesService and its sheet
    provider,       \* this.provider is set
    isProcessing,   \* this.isProcessing
    dailySentCount, \* this.dailySentCount
    lastResetDate,  \* this.lastResetDate
    envios,         \* the rows of the sheet Envios
    cycle,          \* where the running processScheduledMessages stands
    sentToday,      \* messages delivered on the calendar date of now (log)
    delivered       \* the rows of the sheet Envios delivered so far (log)

bufferVars == <<waitTimeMs, buffers, timers, promises, calls, arrivals, cancelled>>
handoffVars == <<pausedChats, adminWhatsapp, pauseMinutes>>
surveyVars == <<activeSurveys, questions, sheetQuestions, responses>>
routerVars == <<handoffVars, surveyVars, blacklist, turns>>
dispatchVars ==
    <<provider, isProcessing, dailySentCount, lastResetDate, envios, cycle, sentToday,
      delivered>>
vars == <<now, bufferVars, routerVars, dispatchVars>>

(***************************************************************************)
(* Text helpers                                                            *)
(***************************************************************************)
Min(a, b) == IF a <= b THEN a ELSE b

Digits == {"0", "1", "2", "3", "4", "5", "6", "7", "8", "9"}

\* JS whitespace as far as the inputs of the model go
IsSpace(c) == c \in {" ", "\n"}

RECURSIVE TrimStart(_)
TrimStart(s) ==
    IF s = <<>> THEN s
    ELSE IF IsSpace(Head(s)) THEN TrimStart(Tail(s)) ELSE s

RECURSIVE TrimEnd(_)
TrimEnd(s) ==
    IF s = <<>> THEN s
    ELSE IF IsSpace(s[Len(s)]) THEN TrimEnd(SubSeq(s, 1, Len(s) - 1)) ELSE s

\* String.prototype.trim
Trim(s) == TrimEnd(TrimStart(s))

\* Array.prototype.join(sep)
RECURSIVE Join(_, _)
Join(msgs, sep) ==
    IF msgs = <<>> THEN <<>>
    ELSE IF Len(msgs) = 1 THEN msgs[1]
    ELSE msgs[1] \o sep \o Join(Tail(msgs), sep)

UpperCase == <<"A", "B", "C", "D", "E", "F", "G", "H", "I", "J", "K", "L", "M",
               "N", "O", "P", "Q", "R", "S", "T", "U", "V", "W", "X", "Y", "Z">>
LowerCase == <<"a", "b", "c", "d", "e", "f", "g", "h", "i", "j", "k", "l", "m",
               "n", "o", "p", "q", "r", "s", "t", "u", "v", "w", "x", "y", "z">>

\* String.prototype.toLowerCase
LowerOf ==
    [c \in {UpperCase[j] : j \in 1..Len(UpperCase)} |->
        LowerCase[CHOOSE j \in 1..Len(UpperCase) : UpperCase[j] = c]]

ToLowerCase(s) ==
    [i \in 1..Len(s) |-> IF s[i] \in DOMAIN LowerOf THEN LowerOf[s[i]] ELSE s[i]]

\* String.prototype.includes
Includes(s, sub) ==
    \E i \in 0..(Len(s) - Len(sub)) : SubSeq(s, i + 1, i + Len(sub)) = sub

IsDigit(c) == c \in Digits

\* phoneNumber.replace(/\D/g, '')
CleanNumber(p) == SelectSeq(p, IsDigit)

(***************************************************************************)
(* MessageBufferService                                                    *)
(***************************************************************************)
WaitTimeMs == 2500
MaxWaitTimeMs == 10000
Separator == <<" ">>

\* bounds of the model: inbound events
MaxCalls == 3
MaxOtherCalls == 1
\* inbound events arrive on a grid of fifths of the ceiling, up to the ceiling
TickMs == MaxWaitTimeMs \div 5
MaxTime == MaxWaitTimeMs
\* a configured wait window longer than half the ceiling
LongWaitMs == 3 * TickMs

Senders == {<<"5", "1">>, <<"5", "2">>}
\* the conversation whose bursts are explored in full; the other one
\* interleaves at most MaxOtherCalls events with it
MainSender == <<"5", "1">>
\* raw bodies of the inbound text events, in order of arrival: all different,
\* with surrounding white space, one of them blank
Bodies == << <<" ", "a">>, <<" ">>, <<"b", " ">>, <<"c">>, <<"\n", "d", " ">> >>
EventBody(i) == Bodies[((i - 1) % Len(Bodies)) + 1]
\* iaConfig.bufferMs values: the default, "0" seconds, a long window
WaitChoices == {WaitTimeMs, 0, LongWaitMs}

NoBuffer == [none |-> TRUE]
NoTimer == 0
NoResolve == 0
Pending == [status |-> "pending"]
Superseded == [status |-> "null"]
Turn(combined, count, ctx) ==
    [status |-> "turn", combined |-> combined, count |-> count, ctx |-> ctx]

\* resolve(value) of the promise r: settles it unless already settled
ResolvePromise(proms, r, value) ==
    IF r # NoResolve /\ proms[r].status = "pending"
    THEN [proms EXCEPT ![r] = value] ELSE proms

\* clearTimeout(handle)
ClearTimeoutKeepsTimer(tms, h) == tms
ClearTimeout(tms, h) == {t \in tms : t.h # h}

\* addMessage: const waitTime = Math.min(waitTimeMs, maxWaitTimeMs - elapsed)
WaitTimeNoCeiling(w, elapsedTime) == w
WaitTime(w, elapsedTime) == Min(w, MaxWaitTimeMs - elapsedTime)

\* _processBuffer: buffer.messages.join(this.config.separator)
CombinedReversed(messages) ==
    Join([i \in 1..Len(messages) |-> messages[Len(messages) + 1 - i]], Separator)
Combined(messages) == Join(messages, Separator)

\* addMessage: if (buffer.resolve && buffer.resolve !== resolve) buffer.resolve(null)
SupersedeForgotten(proms, r, id) == proms
SupersedePrevious(proms, r, id) ==
    IF r # NoResolve /\ r # id THEN ResolvePromise(proms, r, Superseded) ELSE proms

\* _processBuffer(phoneNumber) on the given stores; the new stores
ProcessBufferKeepsBuffer(bufs, tms, proms, k) ==
    IF bufs[k] = NoBuffer THEN [buffers |-> bufs, timers |-> tms, promises |-> proms]
    ELSE LET buffer == bufs[k]
         IN  [buffers |-> bufs,
              timers |-> ClearTimeout(tms, buffer.timeout),
              promises |-> ResolvePromise(proms, buffer.resolve,
                               Turn(Combined(buffer.messages), Len(buffer.messages),
                                    buffer.lastContext))]
ProcessBuffer(bufs, tms, proms, k) ==
    IF bufs[k] = NoBuffer THEN [buffers |-> bufs, timers |-> tms, promises |-> proms]
    ELSE LET buffer == bufs[k]
             combined == Combined(buffer.messages)
             count == Len(buffer.messages)
             ctx == buffer.lastContext
         IN  [buffers |-> [bufs EXCEPT ![k] = NoBuffer],
              timers |-> ClearTimeout(tms, buffer.timeout),
              promises |-> ResolvePromise(proms, buffer.resolve, Turn(combined, count, ctx))]

\* addMessage(phoneNumber, message, ctx) on the current stores; the new stores.
\* The promise of the call and the timer it arms share the index id.
AddMessageStores(k, message, ctx) ==
    LET id == Len(promises) + 1
        created == buffers[k] = NoBuffer
        b0 == IF created
              THEN [messages |-> <<>>, firstMessageTime |-> now, lastContext |-> ctx,
                    timeout |-> NoTimer, resolve |-> NoResolve]
              ELSE buffers[k]
        b1 == [b0 EXCEPT !.messages = Append(@, Trim(message)), !.lastContext = ctx]
        tms1 == ClearTimeout(timers, b1.timeout)
        proms1 == SupersedePrevious(Append(promises, Pending), b1.resolve, id)
        b2 == [b1 EXCEPT !.resolve = id]
        elapsedTime == now - b2.firstMessageTime
        waitTime == WaitTime(waitTimeMs, elapsedTime)
    IN  IF waitTime <= 0
        THEN ProcessBuffer([buffers EXCEPT ![k] = b2], tms1, proms1, k)
        ELSE [buffers |-> [buffers EXCEPT ![k] = [b2 EXCEPT !.timeout = id]],
              timers |-> tms1 \cup {[h |-> id, key |-> k, at |-> now + waitTime]},
              promises |-> proms1]

\* the call arrives inside the wait window of the key's previous call and
\* before the ceiling counted from the first fragment of that call's PendingTurn
InWindow(k) ==
    /\ arrivals[k].last >= 0
    /\ now - arrivals[k].last < waitTimeMs
    /\ now - arrivals[k].first < MaxWaitTimeMs

\* the call finds a PendingTurn whose ceiling has been reached
AtCeiling(k) ==
    buffers[k] # NoBuffer /\ now - buffers[k].firstMessageTime >= MaxWaitTimeMs

\* dynamicFlow: an inbound text event of sender k; the body is trimmed and
\* handed to addMessage with the event as context
DynamicFlow(k) ==
    /\ Len(calls) < MaxCalls
    /\ k # MainSender =>
            Cardinality({j \in 1..Len(calls) : calls[j].key = k}) < MaxOtherCalls
    /\ LET id == Len(promises) + 1
           userInput == Trim(EventBody(id))
           new == AddMessageStores(k, userInput, id)
       IN  /\ buffers' = new.buffers
           /\ timers' = new.timers
           /\ promises' = new.promises
           /\ calls' = Append(calls, [key |-> k, text |-> userInput,
                                      created |-> buffers[k] = NoBuffer,
                                      inWindow |-> InWindow(k),
                                      ceiling |-> AtCeiling(k),
                                      gap |-> now > arrivals[k].last])
           /\ arrivals' = [arrivals EXCEPT ![k] =
                  [last |-> now,
                   first |-> IF buffers[k] = NoBuffer THEN now ELSE @.first]]
    /\ UNCHANGED <<dispatchVars, now, waitTimeMs, cancelled, routerVars>>

\* the setTimeout callback armed by addMessage: () => this._processBuffer(phoneNumber)
TimerFire(t) ==
    /\ t \in timers
    /\ t.at <= now
    /\ LET new == ProcessBuffer(buffers, timers \ {t}, promises, t.key)
       IN  /\ buffers' = new.buffers
           /\ timers' = new.timers
           /\ promises' = new.promises
    /\ UNCHANGED <<dispatchVars, now, waitTimeMs, calls, arrivals, cancelled, routerVars>>

\* cancelBuffer(phoneNumber)
CancelBuffer(k) ==
    /\ buffers[k] # NoBuffer
    /\ timers' = ClearTimeout(timers, buffers[k].timeout)
    /\ promises' = ResolvePromise(promises, buffers[k].resolve, Superseded)
    /\ cancelled' = cancelled \cup {buffers[k].resolve}
    /\ buffers' = [buffers EXCEPT ![k] = NoBuffer]
    /\ arrivals' = [arrivals EXCEPT ![k] = [last |-> -1, first |-> -1]]
    /\ UNCHANGED <<dispatchVars, now, waitTimeMs, calls, routerVars>>

\* The clock advances to the next grid point or to the next timer deadline,
\* whichever comes first: a setTimeout callback runs at its deadline, and an
\* inbound event of the same instant may run before or after it.
NextInstant ==
    LET due == {t.at : t \in timers}
        grid == ((now \div TickMs) + 1) * TickMs
    IN  IF \E d \in due : d < grid
        THEN CHOOSE d \in due : \A e \in due : d <= e
        ELSE grid

\* The grid ends at MaxTime or once the last event has arrived; the clock
\* still reaches every armed deadline.
TickBuffer ==
    /\ \A t \in timers : t.at > now
    /\ timers # {} \/ (NextInstant <= MaxTime /\ Len(calls) < MaxCalls)
    /\ now' = NextInstant
    /\ UNCHANGED <<dispatchVars, bufferVars, routerVars>>

\* an absent entry of HumanHandoffService.pausedChats
NoPause == [none |-> TRUE]

\* the keys of pausedChats: pauseChat, isPaused and resumeChat all reduce the
\* number they are given to its digits
CleanNumbers == {CleanNumber(k) : k \in Senders}

\* an absent entry of SurveyService.activeSurveys
NoSurvey == [none |-> TRUE]

\* config.pauseMinutes as constructed
PauseMinutes == 30
MsPerMinute == 60 * 1000

\* the handoff and survey services as constructed, no turn routed yet
\* hours and days of the clock; new Date(t).toDateString() names the day of t
MsPerHour == 60 * MsPerMinute
MsPerDay == 24 * MsPerHour
ToDateString(t) == [date |-> t \div MsPerDay]

NoCycle == [pc |-> "idle", pendingMessages |-> <<>>, msg |-> 0]

\* the scheduler as constructed and not started, an empty sheet Envios
IdleDispatch ==
    /\ provider = FALSE
    /\ isProcessing = FALSE
    /\ dailySentCount = 0
    /\ lastResetDate = ToDateString(0)
    /\ envios = <<>>
    /\ cycle = NoCycle
    /\ sentToday = 0
    /\ delivered = {}

IdleRouter ==
    /\ pausedChats = [p \in CleanNumbers |-> NoPause]
    /\ activeSurveys = [k \in Senders |-> NoSurvey]
    /\ questions = <<>>
    /\ responses = <<>>
    /\ turns = <<>>

InitBuffer ==
    /\ now = 0
    /\ waitTimeMs \in WaitChoices
    /\ buffers = [k \in Senders |-> NoBuffer]
    /\ timers = {}
    /\ promises = <<>>
    /\ calls = <<>>
    /\ arrivals = [k \in Senders |-> [last |-> -1, first |-> -1]]
    /\ cancelled = {}
    /\ IdleRouter
    /\ adminWhatsapp = <<>>
    /\ pauseMinutes = PauseMinutes
    /\ sheetQuestions = <<>>
    /\ blacklist = <<>>
    /\ IdleDispatch

NextBuffer ==
    \/ \E k \in Senders : DynamicFlow(k)
    \/ \E t \in timers : TimerFire(t)
    \/ \E k \in Senders : CancelBuffer(k)
    \/ TickBuffer

SpecBuffer == InitBuffer /\ [][NextBuffer]_vars

\* An armed timer whose deadline has come runs, and the clock does not stop.
FairSpecBuffer ==
    SpecBuffer /\ WF_vars(TickBuffer) /\ WF_vars(\E t \in timers : TimerFire(t))

(***************************************************************************)
(* HumanHandoffService                                                     *)
(***************************************************************************)
HandoffKeywords == {
    <<"h", "a", "b", "l", "a", "r", " ", "c", "o", "n", " ", "a", "l", "g", "u", "i", "e", "n">>,
    <<"p", "e", "r", "s", "o", "n", "a", " ", "r", "e", "a", "l">>,
    <<"h", "u", "m", "a", "n", "o">>,
    <<"a", "g", "e", "n", "t", "e">>,
    <<"a", "s", "e", "s", "o", "r">>,
    <<"v", "e", "n", "d", "e", "d", "o", "r">>,
    <<"a", "t", "e", "n", "c", "i", "ó", "n", " ", "p", "e", "r", "s", "o", "n", "a", "l", "i", "z", "a", "d", "a">>,
    <<"h", "a", "b", "l", "a", "r", " ", "c", "o", "n", " ", "u", "n", "a", " ", "p", "e", "r", "s", "o", "n", "a">>,
    <<"c", "o", "m", "u", "n", "i", "c", "a", "r", "m", "e", " ", "c", "o", "n", " ", "a", "l", "g", "u", "i", "e", "n">>,
    <<"q", "u", "i", "e", "r", "o", " ", "l", "l", "a", "m", "a", "r">>,
    <<"p", "u", "e", "d", "e", "n", " ", "l", "l", "a", "m", "a", "r", "m", "e">>,
    <<"n", "e", "c", "e", "s", "i", "t", "o", " ", "a", "y", "u", "d", "a", " ", "h", "u", "m", "a", "n", "a">>,
    <<"o", "p", "e", "r", "a", "d", "o", "r">>,
    <<"r", "e", "p", "r", "e", "s", "e", "n", "t", "a", "n", "t", "e">>
}

\* detectHandoffIntent(message)
DetectHandoffIntent(message) ==
    LET messageLower == ToLowerCase(message)
    IN  \E keyword \in HandoffKeywords : Includes(messageLower, keyword)

\* isPaused(phoneNumber): the value returned at clock t
IsPausedResultNever(store, phoneNumber, t) == FALSE
IsPausedResultExpiresEarly(store, phoneNumber, t) ==
    LET cleanNumber == CleanNumber(phoneNumber)
        pauseInfo == store[cleanNumber]
    IN  IF pauseInfo = NoPause THEN FALSE
        ELSE IF t >= pauseInfo.expiresAt THEN FALSE
        ELSE TRUE
IsPausedResult(store, phoneNumber, t) ==
    LET cleanNumber == CleanNumber(phoneNumber)
        pauseInfo == store[cleanNumber]
    IN  IF pauseInfo = NoPause THEN FALSE
        ELSE IF t > pauseInfo.expiresAt THEN FALSE
        ELSE TRUE

\* isPaused(phoneNumber): this.pausedChats after the call at clock t
IsPausedStoreEvictAlways(store, phoneNumber, t) ==
    [store EXCEPT ![CleanNumber(phoneNumber)] = NoPause]
IsPausedStore(store, phoneNumber, t) ==
    LET cleanNumber == CleanNumber(phoneNumber)
        pauseInfo == store[cleanNumber]
    IN  IF pauseInfo = NoPause THEN store
        ELSE IF t > pauseInfo.expiresAt
             THEN [store EXCEPT ![cleanNumber] = NoPause]
        ELSE store

\* the expiry pauseChat computes
ExpiresAtNoPause(t, minutes) == t
ExpiresAt(t, minutes) == t + (minutes * 60 * 1000)

\* pauseChat(phoneNumber, reason) at clock t
PauseChat(store, phoneNumber, reason, minutes, t) ==
    LET cleanNumber == CleanNumber(phoneNumber)
    IN  [store EXCEPT ![cleanNumber] =
            [pausedAt |-> t, expiresAt |-> ExpiresAt(t, minutes), reason |-> reason]]

\* resumeChat(phoneNumber): the value returned
ResumeChatResult(store, phoneNumber) == store[CleanNumber(phoneNumber)] # NoPause

\* resumeChat(phoneNumber): this.pausedChats after the call
ResumeChatStoreClearsAll(store, phoneNumber) ==
    IF store[CleanNumber(phoneNumber)] # NoPause
    THEN [p \in DOMAIN store |-> NoPause]
    ELSE store
ResumeChatStore(store, phoneNumber) ==
    [store EXCEPT ![CleanNumber(phoneNumber)] = NoPause]

\* Math.round of a non-negative quotient a / b
RoundDiv(a, b) == ((2 * a) + b) \div (2 * b)

\* new Date(ms).toLocaleString('es-CL'): the rendering is kept opaque
LocaleString(ms) == [esCL |-> ms]

\* getPausedChats() at clock t; the entries are listed without their order
GetPausedChatsListAll(store, t) ==
    {[phone |-> p,
      pausedAt |-> LocaleString(store[p].pausedAt),
      expiresAt |-> LocaleString(store[p].expiresAt),
      remainingMinutes |-> RoundDiv(store[p].expiresAt - t, MsPerMinute),
      reason |-> store[p].reason] :
        p \in {q \in DOMAIN store : store[q] # NoPause}}
GetPausedChatsBeforeExpiry(store, t) ==
    {[phone |-> p,
      pausedAt |-> LocaleString(store[p].pausedAt),
      expiresAt |-> LocaleString(store[p].expiresAt),
      remainingMinutes |-> RoundDiv(store[p].expiresAt - t, MsPerMinute),
      reason |-> store[p].reason] :
        p \in {q \in DOMAIN store : store[q] # NoPause /\ t < store[q].expiresAt}}
GetPausedChats(store, t) ==
    {[phone |-> p,
      pausedAt |-> LocaleString(store[p].pausedAt),
      expiresAt |-> LocaleString(store[p].expiresAt),
      remainingMinutes |-> RoundDiv(store[p].expiresAt - t, MsPerMinute),
      reason |-> store[p].reason] :
        p \in {q \in DOMAIN store : store[q] # NoPause /\ t <= store[q].expiresAt}}


\* texts of turns, and the keyword of the survey configuration
TextHandoff == <<"u", "n", " ", "A", "g", "e", "n", "t", "e">>
TextKeyword == <<"E", "n", "c", "u", "e", "s", "t", "a">>
TextOther == <<"h", "o", "l", "a">>
SurveyKeyword == <<"e", "n", "c", "u", "e", "s", "t", "a">>

(***************************************************************************)
(* SurveyService                                                           *)
(***************************************************************************)
\* isKeywordTrigger(message), with config.isActive at its initial true
IsKeywordTrigger(message) == Trim(ToLowerCase(message)) = SurveyKeyword

\* hasActiveSurvey(phoneNumber)
HasActiveSurvey(surveys, phoneNumber) == surveys[phoneNumber] # NoSurvey

\* q && q.trim()
IsQuestion(q) == q # <<>> /\ Trim(q) # <<>>

\* getSurveyQuestions(): the cells of row 1 that hold text, [] when the read fails
GetSurveyQuestions(sheet, ok) == IF ok THEN SelectSeq(sheet, IsQuestion) ELSE <<>>

\* the session startSurvey stores
NewSurveyAtSecond(qs, t) ==
    [currentQuestion |-> 1, answers |-> <<>>, questions |-> qs, startedAt |-> t]
NewSurvey(qs, t) ==
    [currentQuestion |-> 0, answers |-> <<>>, questions |-> qs, startedAt |-> t]

\* processAnswer: survey.answers.push(answer); survey.currentQuestion++
PushAnswerNoAdvance(survey, answer) == [survey EXCEPT !.answers = Append(@, answer)]
PushAnswer(survey, answer) ==
    [survey EXCEPT !.answers = Append(@, answer), !.currentQuestion = @ + 1]

\* saveSurveyResponses: row = [now, cleanNumber, ...survey.answers]
SurveyRowKeyFirst(phoneNumber, survey, t) ==
    <<CleanNumber(phoneNumber)>> \o survey.answers
SurveyRow(phoneNumber, survey, t) ==
    <<LocaleString(t), CleanNumber(phoneNumber)>> \o survey.answers

(***************************************************************************)
(* GoogleService: block list                                               *)
(***************************************************************************)
\* getBlacklist(): column A reduced to digits, empty cells dropped; [] when
\* the read fails
GetBlacklistDespiteFailure(sheet, ok) ==
    LET numbers == [i \in 1..Len(sheet) |-> CleanNumber(sheet[i])]
    IN  SelectSeq(numbers, LAMBDA n : n # <<>>)
GetBlacklist(sheet, ok) ==
    IF ok
    THEN LET numbers == [i \in 1..Len(sheet) |-> CleanNumber(sheet[i])]
         IN  SelectSeq(numbers, LAMBDA n : n # <<>>)
    ELSE <<>>

\* isBlacklisted(phoneNumber) over the list getBlacklist returned
IsBlacklisted(phoneNumber, list) ==
    LET cleanNumber == CleanNumber(phoneNumber)
    IN  \E i \in 1..Len(list) :
            LET cleanBlocked == CleanNumber(list[i])
            IN  Includes(cleanNumber, cleanBlocked) \/ Includes(cleanBlocked, cleanNumber)

(***************************************************************************)
(* processMessage (conversation mode router)                               *)
(***************************************************************************)
\* bounds of the router runs
MaxTurns == 2

AdminNumber == <<"5", "9">>

\* what the sheets hold: nothing (the services keep their defaults); a
\* handoff configuration, a block list and one survey question; or two
\* survey questions only
Deployments ==
    {[adminWhatsapp |-> <<>>, pauseMinutes |-> PauseMinutes,
      blacklist |-> <<>>, sheetQuestions |-> <<>>],
     [adminWhatsapp |-> AdminNumber, pauseMinutes |-> PauseMinutes \div 3,
      blacklist |-> << <<"+", "5", "2">> >>,
      sheetQuestions |-> << <<" ">>, <<"p", "1">> >>],
     [adminWhatsapp |-> <<>>, pauseMinutes |-> PauseMinutes,
      blacklist |-> <<>>,
      sheetQuestions |-> << <<"p", "1">>, <<" ">>, <<"p", "2">> >>]}
TurnTexts == {TextHandoff, TextKeyword, TextOther}
ResumeNumbers == {<<"+", "5", "1">>, <<"5", "2">>}

\* the step of processMessage that handles a turn: the first test that holds
RouteSurveyBeforePause(isBlocked, paused, intent, active, keyword) ==
    IF isBlocked THEN "blocked"
    ELSE IF active THEN "survey"
    ELSE IF paused THEN "paused"
    ELSE IF intent THEN "handoff"
    ELSE IF keyword THEN "start"
    ELSE "fallback"
RouteHandoffFirst(isBlocked, paused, intent, active, keyword) ==
    IF intent THEN "handoff"
    ELSE IF isBlocked THEN "blocked"
    ELSE IF paused THEN "paused"
    ELSE IF active THEN "survey"
    ELSE IF keyword THEN "start"
    ELSE "fallback"
RouteSurveyBeforeHandoff(isBlocked, paused, intent, active, keyword) ==
    IF isBlocked THEN "blocked"
    ELSE IF paused THEN "paused"
    ELSE IF active THEN "survey"
    ELSE IF intent THEN "handoff"
    ELSE IF keyword THEN "start"
    ELSE "fallback"
Route(isBlocked, paused, intent, active, keyword) ==
    IF isBlocked THEN "blocked"
    ELSE IF paused THEN "paused"
    ELSE IF intent THEN "handoff"
    ELSE IF active THEN "survey"
    ELSE IF keyword THEN "start"
    ELSE "fallback"

\* an invocation of processMessage: where it stands, the answer of the block
\* list, whether its isPaused logged an expired pause, what it has sent, and
\* the row and the questions its saveSurveyResponses hands to addSurveyResponse
NewTurn(k, text) ==
    [key |-> k, text |-> text, pc |-> "blacklist", route |-> "none",
     isBlocked |-> FALSE, evicted |-> FALSE, log |-> <<>>, row |-> <<>>,
     questions |-> <<>>]

Sent(kind, to, body, ok) == [kind |-> kind, to |-> to, body |-> body, ok |-> ok]

\* a message-received event reaches processMessage
StartTurn(k, text) ==
    /\ Len(turns) < MaxTurns
    /\ k # MainSender =>
           Cardinality({i \in 1..Len(turns) : turns[i].key = k}) < MaxOtherCalls
    /\ turns' = Append(turns, NewTurn(k, text))
    /\ UNCHANGED <<dispatchVars, now, bufferVars, handoffVars, surveyVars, blacklist>>

\* processMessage from the answer of the block-list lookup up to its next
\* await or its return
RouteTurn(i, lookupOk) ==
    /\ i \in 1..Len(turns)
    /\ turns[i].pc = "blacklist"
    /\ LET phoneNumber == turns[i].key
           userInput == turns[i].text
           isBlocked == IsBlacklisted(phoneNumber, GetBlacklist(blacklist, lookupOk))
           paused == IsPausedResult(pausedChats, phoneNumber, now)
           checked == IsPausedStore(pausedChats, phoneNumber, now)
           route == Route(isBlocked, paused, DetectHandoffIntent(userInput),
                          HasActiveSurvey(activeSurveys, phoneNumber),
                          IsKeywordTrigger(userInput))
           survey == PushAnswer(activeSurveys[phoneNumber], userInput)
           more == survey.currentQuestion < Len(survey.questions)
           turn == [turns[i] EXCEPT !.route = route, !.isBlocked = isBlocked,
                                    !.evicted = ~isBlocked /\ checked # pausedChats]
       IN  /\ pausedChats' =
                  IF route = "blocked" THEN pausedChats
                  ELSE IF route = "handoff"
                       THEN PauseChat(checked, CleanNumber(phoneNumber), userInput,
                                      pauseMinutes, now)
                  ELSE checked
           /\ activeSurveys' =
                  IF route = "survey"
                  THEN [activeSurveys EXCEPT ![phoneNumber] = survey]
                  ELSE activeSurveys
           /\ turns' = [turns EXCEPT ![i] =
                  CASE route \in {"blocked", "paused"} -> [turn EXCEPT !.pc = "done"]
                    [] route = "handoff" -> [turn EXCEPT !.pc = "ackSend"]
                    [] route = "survey" /\ more ->
                         [turn EXCEPT !.pc = "done",
                              !.log = Append(@, Sent("reply", phoneNumber,
                                  <<"question", survey.currentQuestion + 1,
                                    survey.questions[survey.currentQuestion + 1]>>,
                                  TRUE))]
                    [] route = "survey" /\ ~more ->
                         [turn EXCEPT !.pc = "save",
                              !.row = SurveyRow(phoneNumber, survey, now),
                              !.questions = survey.questions]
                    [] route = "start" -> [turn EXCEPT !.pc = "loadConfig"]
                    [] OTHER -> [turn EXCEPT !.pc = "respond"]]
    /\ UNCHANGED <<dispatchVars, now, bufferVars, adminWhatsapp, pauseMinutes, questions,
                   sheetQuestions, responses, blacklist>>

\* initiateHandoff: if (this.config.adminWhatsapp)
NotifiesAdminNever(admin) == FALSE
NotifiesAdmin(admin) == admin # <<>>

\* initiateHandoff: where it continues once the send to the customer has
\* returned (ok) or thrown and been caught
AfterAckStopOnFailure(ok, admin) ==
    IF ok /\ NotifiesAdmin(admin) THEN "adminSend" ELSE "done"
AfterAck(ok, admin) == IF NotifiesAdmin(admin) THEN "adminSend" ELSE "done"

\* initiateHandoff: the send to the customer returns or throws
AckSend(i, ok) ==
    /\ i \in 1..Len(turns)
    /\ turns[i].pc = "ackSend"
    /\ turns' = [turns EXCEPT ![i] =
           [@ EXCEPT !.log = Append(@, Sent("ack", CleanNumber(turns[i].key),
                                            <<"customerMessage">>, ok)),
                     !.pc = AfterAck(ok, adminWhatsapp)]]
    /\ UNCHANGED <<dispatchVars, now, bufferVars, handoffVars, surveyVars, blacklist>>

\* initiateHandoff: the send to the admin returns or throws
AdminSend(i, ok) ==
    /\ i \in 1..Len(turns)
    /\ turns[i].pc = "adminSend"
    /\ turns' = [turns EXCEPT ![i] =
           [@ EXCEPT !.log = Append(@, Sent("admin", adminWhatsapp,
                                            <<"adminMessage", CleanNumber(turns[i].key),
                                              turns[i].text>>, ok)),
                     !.pc = "done"]]
    /\ UNCHANGED <<dispatchVars, now, bufferVars, handoffVars, surveyVars, blacklist>>

\* processAnswer: saveSurveyResponses returns (it catches a failed append)
SurveySavedRaises(i, ok) ==
    /\ i \in 1..Len(turns)
    /\ turns[i].pc = "save"
    /\ responses' = IF ok THEN Append(responses, turns[i].row) ELSE responses
    /\ activeSurveys' = IF ok THEN [activeSurveys EXCEPT ![turns[i].key] = NoSurvey]
                        ELSE activeSurveys
    /\ turns' = [turns EXCEPT ![i] =
           [@ EXCEPT !.log = IF ok THEN Append(@, Sent("reply", turns[i].key,
                                                       <<"thankYouMessage">>, TRUE))
                             ELSE @,
                     !.pc = "done"]]
    /\ UNCHANGED <<dispatchVars, now, bufferVars, handoffVars, questions, sheetQuestions,
                   blacklist>>
SurveySaved(i, ok) ==
    /\ i \in 1..Len(turns)
    /\ turns[i].pc = "save"
    /\ responses' = IF ok THEN Append(responses, turns[i].row) ELSE responses
    /\ activeSurveys' = [activeSurveys EXCEPT ![turns[i].key] = NoSurvey]
    /\ turns' = [turns EXCEPT ![i] =
           [@ EXCEPT !.log = Append(@, Sent("reply", turns[i].key,
                                            <<"thankYouMessage">>, TRUE)),
                     !.pc = "done"]]
    /\ UNCHANGED <<dispatchVars, now, bufferVars, handoffVars, questions, sheetQuestions,
                   blacklist>>

\* startSurvey: this.activeSurveys after the call, the questions loaded; the
\* session gets a copy of the list, [...this.questions]
StartSurveySharesList(surveys, phoneNumber, loaded, t) ==
    IF Len(loaded) = 0 THEN surveys
    ELSE [k \in DOMAIN surveys |->
             IF k = phoneNumber THEN NewSurvey(loaded, t)
             ELSE IF surveys[k] = NoSurvey THEN NoSurvey
             ELSE [surveys[k] EXCEPT !.questions = loaded]]
StartSurvey(surveys, phoneNumber, loaded, t) ==
    IF Len(loaded) = 0 THEN surveys
    ELSE [surveys EXCEPT ![phoneNumber] = NewSurvey(loaded, t)]

\* startSurvey: loadConfig returns, getSurveyQuestions having answered or
\* failed, then the rest of startSurvey and the reply
SurveyQuestionsLoaded(i, ok) ==
    /\ i \in 1..Len(turns)
    /\ turns[i].pc = "loadConfig"
    /\ LET loaded == GetSurveyQuestions(sheetQuestions, ok)
           phoneNumber == turns[i].key
       IN  /\ questions' = loaded
           /\ activeSurveys' = StartSurvey(activeSurveys, phoneNumber, loaded, now)
           /\ turns' = [turns EXCEPT ![i] =
                  [@ EXCEPT !.log = Append(@, Sent("reply", phoneNumber,
                                IF Len(loaded) = 0 THEN <<"noQuestions">>
                                ELSE <<"welcomeMessage", 1, loaded[1]>>, TRUE)),
                            !.pc = "done"]]
    /\ UNCHANGED <<dispatchVars, now, bufferVars, handoffVars, sheetQuestions, responses,
                   blacklist>>

\* the flows of the sheet, else the AI fallback, answer the turn
Respond(i) ==
    /\ i \in 1..Len(turns)
    /\ turns[i].pc = "respond"
    /\ turns' = [turns EXCEPT ![i] =
           [@ EXCEPT !.log = Append(@, Sent("reply", turns[i].key,
                                            <<"responder">>, TRUE)),
                     !.pc = "done"]]
    /\ UNCHANGED <<dispatchVars, now, bufferVars, handoffVars, surveyVars, blacklist>>

\* this.pausedChats after getPausedChats(): the method only reads the map
GetPausedChatsStoreEvicting(store, t) ==
    [p \in DOMAIN store |->
        IF store[p] # NoPause /\ t > store[p].expiresAt THEN NoPause ELSE store[p]]
GetPausedChatsStore(store, t) == store

\* POST /v1/handoff/resume with a number
ResumeChat(number) ==
    /\ pausedChats' = ResumeChatStore(pausedChats, number)
    /\ UNCHANGED <<dispatchVars, now, bufferVars, adminWhatsapp, pauseMinutes, surveyVars,
                   blacklist, turns>>

\* GET /v1/handoff/paused
ListPausedChats ==
    /\ pausedChats' = GetPausedChatsStore(pausedChats, now)
    /\ UNCHANGED <<dispatchVars, now, bufferVars, adminWhatsapp, pauseMinutes, surveyVars,
                   blacklist, turns>>

\* the clock advances by a pause period, until a pause made one period after
\* the start is at its expiry
RouterTickMs == pauseMinutes * MsPerMinute
RouterHorizon == 2 * RouterTickMs
TickRouter ==
    /\ now + RouterTickMs <= RouterHorizon
    /\ now' = now + RouterTickMs
    /\ UNCHANGED <<dispatchVars, bufferVars, routerVars>>

IdleBuffer ==
    /\ buffers = [k \in Senders |-> NoBuffer]
    /\ timers = {}
    /\ promises = <<>>
    /\ calls = <<>>
    /\ arrivals = [k \in Senders |-> [last |-> -1, first |-> -1]]
    /\ cancelled = {}

InitRouter ==
    /\ now = 0
    /\ IdleDispatch
    /\ waitTimeMs = WaitTimeMs
    /\ IdleBuffer
    /\ IdleRouter
    /\ \E sheets \in Deployments :
           /\ adminWhatsapp = sheets.adminWhatsapp
           /\ pauseMinutes = sheets.pauseMinutes
           /\ sheetQuestions = sheets.sheetQuestions
           /\ blacklist = sheets.blacklist

NextRouter ==
    \/ \E k \in Senders, text \in TurnTexts : StartTurn(k, text)
    \/ \E i \in 1..Len(turns), lookupOk \in BOOLEAN : RouteTurn(i, lookupOk)
    \/ \E i \in 1..Len(turns), ok \in BOOLEAN : AckSend(i, ok)
    \/ \E i \in 1..Len(turns), ok \in BOOLEAN : AdminSend(i, ok)
    \/ \E i \in 1..Len(turns), ok \in BOOLEAN : SurveySaved(i, ok)
    \/ \E i \in 1..Len(turns), ok \in BOOLEAN : SurveyQuestionsLoaded(i, ok)
    \/ \E i \in 1..Len(turns) : Respond(i)
    \/ \E number \in ResumeNumbers : ResumeChat(number)
    \/ ListPausedChats
    \/ TickRouter

SpecRouter == InitRouter /\ [][NextRouter]_vars

(***************************************************************************)
(* Survey runs: the router with a survey configured                        *)
(***************************************************************************)
\* bound of the survey runs
MaxSurveyTurns == 3

\* row 1 of the sheet Encuesta_Preguntas: one question, or three and a blank
\* cell
SurveySheets ==
    {<< <<"p", "1">> >>,
     << <<"p", "1">>, <<" ">>, <<"p", "2">>, <<"p", "3">> >>}

\* texts of the turns of the survey runs: the keyword as configured, an
\* answer, a request for a person
SurveyTexts == {SurveyKeyword, TextOther, TextHandoff}

\* a message-received event reaches processMessage
SurveyTurn(k, text) ==
    /\ Len(turns) < MaxSurveyTurns
    /\ k # MainSender =>
           Cardinality({i \in 1..Len(turns) : turns[i].key = k}) < MaxOtherCalls
    /\ turns' = Append(turns, NewTurn(k, text))
    /\ UNCHANGED <<dispatchVars, now, bufferVars, handoffVars, surveyVars, blacklist>>

\* the owner of the spreadsheet rewrites row 1 of Encuesta_Preguntas
EditQuestions(sheet) ==
    /\ sheet # sheetQuestions
    /\ sheetQuestions' = sheet
    /\ UNCHANGED <<dispatchVars, now, bufferVars, handoffVars, activeSurveys, questions,
                   responses, blacklist, turns>>

InitSurvey ==
    /\ now = 0
    /\ IdleDispatch
    /\ waitTimeMs = WaitTimeMs
    /\ IdleBuffer
    /\ IdleRouter
    /\ adminWhatsapp = <<>>
    /\ pauseMinutes = PauseMinutes
    /\ blacklist = <<>>
    /\ sheetQuestions \in SurveySheets

NextSurvey ==
    \/ \E k \in Senders, text \in SurveyTexts : SurveyTurn(k, text)
    \/ \E i \in 1..Len(turns), lookupOk \in BOOLEAN : RouteTurn(i, lookupOk)
    \/ \E i \in 1..Len(turns), ok \in BOOLEAN : AckSend(i, ok)
    \/ \E i \in 1..Len(turns), ok \in BOOLEAN : SurveySaved(i, ok)
    \/ \E i \in 1..Len(turns), ok \in BOOLEAN : SurveyQuestionsLoaded(i, ok)
    \/ \E i \in 1..Len(turns) : Respond(i)
    \/ \E sheet \in SurveySheets : EditQuestions(sheet)

SpecSurvey == InitSurvey /\ [][NextSurvey]_vars

(***************************************************************************)
(* Scenario runs: one key, each turn handled before the next arrives       *)
(***************************************************************************)
\* bound of the scenario runs
MaxScenarioTurns == 4

\* row 1 of the sheet Encuesta_Preguntas: two, three or four questions
ScenarioSheets ==
    {<< <<"p", "1">>, <<"p", "2">> >>,
     << <<"p", "1">>, <<"p", "2">>, <<"p", "3">> >>,
     << <<"p", "1">>, <<"p", "2">>, <<"p", "3">>, <<"p", "4">> >>}

\* texts of the turns: the keyword and two answers
AnswerTexts == {<<"s", "i">>, <<"n", "o">>}
ScenarioTexts == {SurveyKeyword} \cup AnswerTexts

\* a message-received event reaches processMessage once the turns before it
\* have returned
ScenarioTurn(text) ==
    /\ Len(turns) < MaxScenarioTurns
    /\ \A i \in 1..Len(turns) : turns[i].pc = "done"
    /\ turns' = Append(turns, NewTurn(MainSender, text))
    /\ UNCHANGED <<dispatchVars, now, bufferVars, handoffVars, surveyVars, blacklist>>

InitScenario ==
    /\ now = 0
    /\ IdleDispatch
    /\ waitTimeMs = WaitTimeMs
    /\ IdleBuffer
    /\ IdleRouter
    /\ adminWhatsapp = <<>>
    /\ pauseMinutes = PauseMinutes
    /\ blacklist = <<>>
    /\ sheetQuestions \in ScenarioSheets

NextScenario ==
    \/ \E text \in ScenarioTexts : ScenarioTurn(text)
    \/ \E i \in 1..Len(turns), lookupOk \in BOOLEAN : RouteTurn(i, lookupOk)
    \/ \E i \in 1..Len(turns), ok \in BOOLEAN : SurveySaved(i, ok)
    \/ \E i \in 1..Len(turns), ok \in BOOLEAN : SurveyQuestionsLoaded(i, ok)
    \/ \E i \in 1..Len(turns) : Respond(i)

SpecScenario == InitScenario /\ [][NextScenario]_vars

(***************************************************************************)
(* Pause runs: one key with a survey, handoff phrases, resume and expiry   *)
(***************************************************************************)
\* bound of the pause runs
MaxPauseTurns == 3

\* texts of the turns: the keyword, an answer, a request for a person
PauseTexts == {SurveyKeyword, <<"s", "i">>, TextHandoff}

\* a message-received event of the key reaches processMessage
PauseTurn(text) ==
    /\ Len(turns) < MaxPauseTurns
    /\ turns' = Append(turns, NewTurn(MainSender, text))
    /\ UNCHANGED <<dispatchVars, now, bufferVars, handoffVars, surveyVars, blacklist>>

InitPause ==
    /\ now = 0
    /\ IdleDispatch
    /\ waitTimeMs = WaitTimeMs
    /\ IdleBuffer
    /\ IdleRouter
    /\ adminWhatsapp = <<>>
    /\ pauseMinutes = PauseMinutes
    /\ blacklist = <<>>
    /\ sheetQuestions = << <<"p", "1">>, <<"p", "2">> >>

NextPause ==
    \/ \E text \in PauseTexts : PauseTurn(text)
    \/ \E i \in 1..Len(turns), lookupOk \in BOOLEAN : RouteTurn(i, lookupOk)
    \/ \E i \in 1..Len(turns), ok \in BOOLEAN : AckSend(i, ok)
    \/ \E i \in 1..Len(turns), ok \in BOOLEAN : SurveySaved(i, ok)
    \/ \E i \in 1..Len(turns), ok \in BOOLEAN : SurveyQuestionsLoaded(i, ok)
    \/ \E i \in 1..Len(turns) : Respond(i)
    \/ \E number \in ResumeNumbers : ResumeChat(number)
    \/ TickRouter

SpecPause == InitPause /\ [][NextPause]_vars

(***************************************************************************)
(* ScheduledMessagesService                                                *)
(***************************************************************************)
\* this.config
MaxDailyMessages == 50
StartHour == 6
EndHour == 22

\* bounds of the scheduler runs: rows of the sheet Envios, days of the clock
MaxRows == 6
MaxDays == 2

\* the clock of the scheduler runs advances by eleven hours: the instants
\* met fall before, inside and after the allowed hours
DispatchTickMs == 11 * MsPerHour

\* column E of the sheet Envios
EstadoPendiente == <<"P", "e", "n", "d", "i", "e", "n", "t", "e">>
EstadoEnviado == <<"E", "n", "v", "i", "a", "d", "o">>
EstadoError == <<"E", "r", "r", "o", "r">>

\* isWithinAllowedHours() at clock t
GetHours(t) == (t \div MsPerHour) % 24
IsWithinAllowedHours(t) == GetHours(t) >= StartHour /\ GetHours(t) < EndHour

\* checkDailyReset() at clock t: the counter and the date it leaves
ResetsCount(last, t) == ToDateString(t) # last
CountAfterResetKeepsCount(count, last, t) == count
CountAfterReset(count, last, t) == IF ResetsCount(last, t) THEN 0 ELSE count
DateAfterReset(last, t) == IF ResetsCount(last, t) THEN ToDateString(t) ELSE last

\* this.dailySentCount >= this.config.maxDailyMessages
LimitReachedAbove(count) == count > MaxDailyMessages
LimitReached(count) == count >= MaxDailyMessages

\* String.prototype.split with a separator of one character
RECURSIVE Split(_, _)
Split(s, sep) ==
    IF \A i \in 1..Len(s) : s[i] # sep
    THEN <<s>>
    ELSE LET i == CHOOSE k \in 1..Len(s) : s[k] = sep /\ \A j \in 1..(k - 1) : s[j] # sep
         IN  <<SubSeq(s, 1, i - 1)>> \o Split(SubSeq(s, i + 1, Len(s)), sep)

\* a JavaScript number: NaN, or the integer n
NaN == [nan |-> TRUE, n |-> 0]
Number(n) == [nan |-> FALSE, n |-> n]
DigitValue(c) == CHOOSE d \in 0..9 : <<"0", "1", "2", "3", "4", "5", "6", "7", "8", "9">>[d + 1] = c
RECURSIVE DigitsValue(_)
DigitsValue(s) ==
    IF s = <<>> THEN 0 ELSE 10 * DigitsValue(SubSeq(s, 1, Len(s) - 1)) + DigitValue(s[Len(s)])
LeadingDigits(s) ==
    LET n == CHOOSE k \in 0..Len(s) :
                 /\ \A j \in 1..k : IsDigit(s[j])
                 /\ k < Len(s) => ~IsDigit(s[k + 1])
    IN  SubSeq(s, 1, n)

\* parseInt(s): white space is skipped, then an optional sign, then the
\* digits up to the first character that is not one; NaN when there are no
\* digits there. A part that split() did not produce is undefined, written
\* Undefined here, and gives NaN as well.
Undefined == <<"undefined">>
PartAt(parts, i) == IF i <= Len(parts) THEN parts[i] ELSE Undefined
ParseInt(s) ==
    IF s = Undefined THEN NaN
    ELSE LET t == TrimStart(s)
             negative == t # <<>> /\ t[1] = "-"
             signed == t # <<>> /\ t[1] \in {"-", "+"}
             digits == LeadingDigits(IF signed THEN Tail(t) ELSE t)
         IN  IF digits = <<>> THEN NaN
             ELSE Number(IF negative THEN 0 - DigitsValue(digits) ELSE DigitsValue(digits))
\* x || 0 of a number: NaN and 0 give 0
OrZero(x) == IF x.nan THEN Number(0) ELSE x

\* days from 1 January 1970 to day d of month m (0 = January) of year y in
\* the calendar of Date: months past December run into the next years and
\* days past the end of the month into the next months
DaysFromCivil(y, m, d) ==
    LET year == y + (m \div 12)
        month == (m % 12) + 1
        yy == IF month <= 2 THEN year - 1 ELSE year
        era == yy \div 400
        yoe == yy - era * 400
        mp == IF month > 2 THEN month - 3 ELSE month + 9
        doy == (153 * mp + 2) \div 5 + d - 1
        doe == yoe * 365 + (yoe \div 4) - (yoe \div 100) + doy
    IN  era * 146097 + doe - 719468

\* the date and time of clock 0 of the runs: 1 January 2025, 00:00:00
EpochDay == DaysFromCivil(2025, 0, 1)

\* a Date: null stands for the value null, nan for Invalid Date; a valid
\* Date is the instant ms milliseconds into day number day of the clock of
\* the runs
NullDate == [null |-> TRUE, nan |-> FALSE, day |-> 0, ms |-> 0]
InvalidDate == [null |-> FALSE, nan |-> TRUE, day |-> 0, ms |-> 0]
DateOfClock(t) == [null |-> FALSE, nan |-> FALSE, day |-> t \div MsPerDay, ms |-> t % MsPerDay]

\* new Date(year, month, day, hour, minute, second) in local time: Invalid
\* Date when a field is NaN; a year from 0 to 99 is taken in the 1900s;
\* fields out of range carry over into the next unit
NewDate(year, month, day, hour, minute, second) ==
    IF year.nan \/ month.nan \/ day.nan \/ hour.nan \/ minute.nan \/ second.nan
    THEN InvalidDate
    ELSE LET y == IF year.n >= 0 /\ year.n <= 99 THEN 1900 + year.n ELSE year.n
             time == hour.n * MsPerHour + minute.n * MsPerMinute + second.n * 1000
         IN  [null |-> FALSE, nan |-> FALSE,
              day |-> DaysFromCivil(y, month.n, day.n) - EpochDay + (time \div MsPerDay),
              ms |-> time % MsPerDay]

\* a <= b of two Dates: false when either is Invalid Date
DateLeq(a, b) ==
    /\ ~a.nan
    /\ ~b.nan
    /\ a.day < b.day \/ (a.day = b.day /\ a.ms <= b.ms)

\* parseDateTime(dateTimeStr)
ParseDateTime(dateTimeStr) ==
    IF dateTimeStr = <<>> THEN NullDate
    ELSE LET parts == Split(Trim(dateTimeStr), " ")
         IN  IF Len(parts) < 2 THEN NullDate
             ELSE LET dateParts == Split(parts[1], "/")
                      timeParts == Split(parts[2], ":")
                  IN  IF Len(dateParts) < 3 THEN NullDate
                      ELSE LET day == ParseInt(dateParts[1])
                               month == ParseInt(dateParts[2])
                               year == ParseInt(dateParts[3])
                               hour == ParseInt(timeParts[1])
                               minute == OrZero(ParseInt(PartAt(timeParts, 2)))
                               second == OrZero(ParseInt(PartAt(timeParts, 3)))
                           IN  NewDate(year,
                                       IF month.nan THEN NaN ELSE Number(month.n - 1),
                                       day, hour, minute, second)

\* getScheduledMessages(): the rows from row 2 on, an empty column E read
\* as 'Pendiente'; [] when the read fails. The rows of the runs all have a
\* number and a text.
GetScheduledMessages(sheet, ok) ==
    IF ok
    THEN [i \in 1..Len(sheet) |->
             [rowIndex |-> i + 1, hora |-> sheet[i].hora,
              estado |-> IF sheet[i].estado = <<>> THEN EstadoPendiente
                         ELSE sheet[i].estado]]
    ELSE <<>>

\* the filter of processScheduledMessages: pending and due. !scheduledTime
\* is true of null only, and scheduledTime <= now is false of Invalid Date.
LogsInvalidHour(m) ==
    /\ ToLowerCase(m.estado) = ToLowerCase(EstadoPendiente)
    /\ ParseDateTime(m.hora).null
IsPendingMessageOfAnyStatus(m, t) ==
    LET scheduledTime == ParseDateTime(m.hora)
    IN  /\ ~scheduledTime.null
        /\ DateLeq(scheduledTime, DateOfClock(t))
IsPendingMessage(m, t) ==
    /\ ToLowerCase(m.estado) = ToLowerCase(EstadoPendiente)
    /\ LET scheduledTime == ParseDateTime(m.hora)
       IN  /\ ~scheduledTime.null
           /\ DateLeq(scheduledTime, DateOfClock(t))
PendingMessages(messages, t) == SelectSeq(messages, LAMBDA m : IsPendingMessage(m, t))

\* updateMessageStatus(rowIndex, newStatus): the sheet after the call, the
\* update done or failed
UpdateMessageStatus(sheet, rowIndex, newStatus, ok) ==
    IF ok THEN [sheet EXCEPT ![rowIndex - 1].estado = newStatus] ELSE sheet

\* the finally of processScheduledMessages
EndCycleKeepsFlag ==
    /\ UNCHANGED isProcessing
    /\ cycle' = NoCycle
EndCycle ==
    /\ isProcessing' = FALSE
    /\ cycle' = NoCycle

\* the head of the for loop at entry n of the pending messages: past the
\* last entry the loop is over, at the limit it breaks, else the entry is
\* sent
LoopHead(pendingMessages, n, count) ==
    IF n > Len(pendingMessages) \/ LimitReached(count)
    THEN EndCycle
    ELSE /\ isProcessing' = TRUE
         /\ cycle' = [pc |-> "send", pendingMessages |-> pendingMessages, msg |-> n]

\* the guard of processScheduledMessages: a cycle in progress, or no provider
SkipsCycleWithoutFlag(processing, hasProvider) == ~hasProvider
SkipsCycle(processing, hasProvider) == processing \/ ~hasProvider

\* processScheduledMessages() from its call to its first await or its return
ProcessScheduledMessages ==
    IF SkipsCycle(isProcessing, provider')
    THEN UNCHANGED <<isProcessing, dailySentCount, lastResetDate, cycle>>
    ELSE IF ~IsWithinAllowedHours(now)
    THEN UNCHANGED <<isProcessing, dailySentCount, lastResetDate, cycle>>
    ELSE /\ dailySentCount' = CountAfterReset(dailySentCount, lastResetDate, now)
         /\ lastResetDate' = DateAfterReset(lastResetDate, now)
         /\ IF LimitReached(dailySentCount')
            THEN UNCHANGED <<isProcessing, cycle>>
            ELSE /\ isProcessing' = TRUE
                 /\ cycle' = [pc |-> "fetch", pendingMessages |-> <<>>, msg |-> 0]

\* startScheduler(provider): sets the provider and runs a first cycle
StartScheduler ==
    /\ ~provider
    /\ provider' = TRUE
    /\ ProcessScheduledMessages
    /\ UNCHANGED <<now, bufferVars, routerVars, envios, sentToday, delivered>>

\* the interval of startScheduler fires
IntervalFires ==
    /\ provider
    /\ provider' = provider
    /\ ProcessScheduledMessages
    /\ UNCHANGED <<now, bufferVars, routerVars, envios, sentToday, delivered>>

\* getScheduledMessages returns: the filter, then the first entry
MessagesFetched(ok) ==
    /\ cycle.pc = "fetch"
    /\ LET pendingMessages == PendingMessages(GetScheduledMessages(envios, ok), now)
       IN  LoopHead(pendingMessages, 1, dailySentCount)
    /\ UNCHANGED <<now, bufferVars, routerVars, provider, dailySentCount,
                   lastResetDate, envios, sentToday, delivered>>

\* provider.sendMessage returns (the message is delivered) or throws
MessageSent(ok) ==
    /\ cycle.pc = "send"
    /\ cycle' = [cycle EXCEPT !.pc = IF ok THEN "status" ELSE "errorStatus"]
    /\ sentToday' = IF ok THEN sentToday + 1 ELSE sentToday
    /\ delivered' = IF ok THEN delivered \cup {cycle.pendingMessages[cycle.msg].rowIndex}
                   ELSE delivered
    /\ UNCHANGED <<now, bufferVars, routerVars, provider, isProcessing,
                   dailySentCount, lastResetDate, envios>>

\* updateMessageStatus(rowIndex, 'Enviado') returns, the update done or
\* failed; the counter goes up; the last entry ends the loop, any other is
\* followed by the delay
StatusUpdated(ok) ==
    /\ cycle.pc = "status"
    /\ envios' = UpdateMessageStatus(envios, cycle.pendingMessages[cycle.msg].rowIndex,
                                     EstadoEnviado, ok)
    /\ dailySentCount' = dailySentCount + 1
    /\ IF cycle.msg < Len(cycle.pendingMessages)
       THEN /\ cycle' = [cycle EXCEPT !.pc = "delay"]
            /\ UNCHANGED isProcessing
       ELSE EndCycle
    /\ UNCHANGED <<now, bufferVars, routerVars, provider, lastResetDate, sentToday, delivered>>

\* the random delay is over: the next entry
DelayElapsed ==
    /\ cycle.pc = "delay"
    /\ LoopHead(cycle.pendingMessages, cycle.msg + 1, dailySentCount)
    /\ UNCHANGED <<now, bufferVars, routerVars, provider, dailySentCount,
                   lastResetDate, envios, sentToday, delivered>>

\* updateMessageStatus(rowIndex, 'Error') of the catch returns: the next entry
ErrorStatusUpdatedEndsCycle(ok) ==
    /\ cycle.pc = "errorStatus"
    /\ envios' = UpdateMessageStatus(envios, cycle.pendingMessages[cycle.msg].rowIndex,
                                     EstadoError, ok)
    /\ EndCycle
    /\ UNCHANGED <<now, bufferVars, routerVars, provider, dailySentCount,
                   lastResetDate, sentToday, delivered>>
ErrorStatusUpdated(ok) ==
    /\ cycle.pc = "errorStatus"
    /\ envios' = UpdateMessageStatus(envios, cycle.pendingMessages[cycle.msg].rowIndex,
                                     EstadoError, ok)
    /\ LoopHead(cycle.pendingMessages, cycle.msg + 1, dailySentCount)
    /\ UNCHANGED <<now, bufferVars, routerVars, provider, dailySentCount,
                   lastResetDate, sentToday, delivered>>

\* the clock advances; the log of the day starts again on a new date
TickDispatch ==
    /\ now + DispatchTickMs < MaxDays * MsPerDay
    /\ now' = now + DispatchTickMs
    /\ sentToday' = IF ToDateString(now') # ToDateString(now) THEN 0 ELSE sentToday
    /\ UNCHANGED delivered
    /\ UNCHANGED <<bufferVars, routerVars, provider, isProcessing, dailySentCount,
                   lastResetDate, envios, cycle>>

\* column D of the sheet Envios
HoraStart == <<"0","1","/","0","1","/","2","0","2","5"," ","0","0",":","0","0",":","0","0">>
HoraOverflow == <<"3","1","/","0","2","/","2","0","2","4"," ","9","9",":","9","9">>
HoraWords == <<"a","b","/","c","d","/","e","f","g","h"," ","i","j",":","k","l">>
HoraNoTime == <<"0","1","/","0","1","/","2","0","2","5">>
HoraLater == <<"0","2","/","0","1","/","2","0","2","5"," ","0","9",":","0","0">>

\* the rows of the sheet Envios as the runs find it: a row due at once with
\* column E empty, a pending row with day 31 of February and hour 99, a
\* pending row with no number in column D, a row already sent, a pending row
\* with a date and no time, a pending row due the next morning; the rows
\* after these have failed before
EnviosRow(i) ==
    CASE i = 1 -> [hora |-> HoraStart, estado |-> <<>>]
      [] i = 2 -> [hora |-> HoraOverflow, estado |-> EstadoPendiente]
      [] i = 3 -> [hora |-> HoraWords, estado |-> EstadoPendiente]
      [] i = 4 -> [hora |-> HoraStart, estado |-> EstadoEnviado]
      [] i = 5 -> [hora |-> HoraNoTime, estado |-> EstadoPendiente]
      [] i = 6 -> [hora |-> HoraLater, estado |-> EstadoPendiente]
      [] OTHER -> [hora |-> HoraStart, estado |-> EstadoError]

InitDispatch ==
    /\ now = 0
    /\ waitTimeMs = WaitTimeMs
    /\ IdleBuffer
    /\ IdleRouter
    /\ adminWhatsapp = <<>>
    /\ pauseMinutes = PauseMinutes
    /\ sheetQuestions = <<>>
    /\ blacklist = <<>>
    /\ provider = FALSE
    /\ isProcessing = FALSE
    /\ dailySentCount = 0
    /\ lastResetDate = ToDateString(now)
    /\ envios = [i \in 1..MaxRows |-> EnviosRow(i)]
    /\ cycle = NoCycle
    /\ sentToday = 0
    /\ delivered = {}

NextDispatch ==
    \/ StartScheduler
    \/ IntervalFires
    \/ \E ok \in BOOLEAN : MessagesFetched(ok)
    \/ \E ok \in BOOLEAN : MessageSent(ok)
    \/ \E ok \in BOOLEAN : StatusUpdated(ok)
    \/ DelayElapsed
    \/ \E ok \in BOOLEAN : ErrorStatusUpdated(ok)
    \/ TickDispatch

SpecDispatch == InitDispatch /\ [][NextDispatch]_vars

(***************************************************************************)
(* Claims on the debounce aggregator                                       *)
(***************************************************************************)
\* the call that opened the PendingTurn the n-th call went into
TurnHead(n) ==
    CHOOSE h \in 1..n :
        /\ calls[h].key = calls[n].key
        /\ calls[h].created
        /\ \A j \in (h + 1)..n : calls[j].key = calls[n].key => ~calls[j].created

\* the calls of that PendingTurn up to the n-th
TurnMembers(n) == {j \in TurnHead(n)..n : calls[j].key = calls[n].key}

\* no later call went into the same PendingTurn
IsLastOfTurn(n) ==
    \A j \in (n + 1)..Len(calls) : calls[j].key = calls[n].key => TurnHead(j) > n

\* every fragment after the first arrived inside the wait window and before the ceiling
IsBurst(n) == \A j \in TurnMembers(n) \ {TurnHead(n)} : calls[j].inWindow

RECURSIVE FragmentsFrom(_, _, _)
FragmentsFrom(i, n, k) ==
    IF i > n THEN <<>>
    ELSE (IF calls[i].key = k THEN <<calls[i].text>> ELSE <<>>) \o FragmentsFrom(i + 1, n, k)

\* C1: a burst of fragments for one key, each inside the wait window of the
\* previous one and the whole burst shorter than the ceiling, goes into one
\* PendingTurn; every promise but the last is resolved with null, and the last
\* one, once the turn is flushed, carries the fragments joined by one space in
\* arrival order and their count.
C1_BurstResolvesOnce ==
    \A n \in 1..Len(calls) :
        /\ calls[n].inWindow => ~calls[n].created
        /\ IsBurst(n) =>
            /\ \A j \in TurnMembers(n) \ {n} : promises[j] = Superseded
            /\ (IsLastOfTurn(n) /\ n \notin cancelled) =>
                IF buffers[calls[n].key] # NoBuffer /\ buffers[calls[n].key].resolve = n
                THEN promises[n] = Pending
                ELSE /\ promises[n].status = "turn"
                     /\ promises[n].combined =
                            Join(FragmentsFrom(TurnHead(n), n, calls[n].key), <<" ">>)
                     /\ promises[n].count = Cardinality(TurnMembers(n))

\* three fragments, later ones after a positive gap, resolved as one turn
C1_Witness ==
    \E n \in 1..Len(calls) :
        /\ IsBurst(n) /\ Cardinality(TurnMembers(n)) = 3
        /\ \A j \in TurnMembers(n) \ {TurnHead(n)} : calls[j].gap
        /\ promises[n].status = "turn"
        /\ promises[n].combined = <<"a", " ", " ", "b">>

\* C2: a PendingTurn is flushed no later than maxWaitTimeMs after its first
\* fragment: its timer is always armed for min(waitTimeMs, maxWaitTimeMs -
\* elapsed) after the latest fragment, and a fragment that arrives at or after
\* the ceiling is flushed inside addMessage.
C2_CeilingForcesFlush ==
    /\ \A k \in Senders : buffers[k] # NoBuffer =>
            LET first == buffers[k].firstMessageTime
                last == arrivals[k].last
            IN  /\ now <= first + MaxWaitTimeMs
                /\ last - first < MaxWaitTimeMs
                /\ \E t \in timers :
                        /\ t.h = buffers[k].timeout /\ t.key = k
                        /\ t.at = last + Min(waitTimeMs, MaxWaitTimeMs - (last - first))
                        /\ t.at <= first + MaxWaitTimeMs
                        /\ now <= t.at
    /\ \A n \in 1..Len(calls) : calls[n].ceiling =>
            /\ promises[n].status = "turn"
            /\ promises[n].count = Cardinality(TurnMembers(n))

\* a fragment arrived at the ceiling and was flushed at once with the earlier ones
C2_Witness ==
    \E n \in 1..Len(calls) :
        calls[n].ceiling /\ promises[n].status = "turn" /\ promises[n].count = 3

\* the i-th promise exists and is not settled / is settled
IsPending(i) == Len(promises) >= i /\ promises[i].status = "pending"
IsSettled(i) == Len(promises) >= i /\ promises[i].status # "pending"

\* C3: every promise returned by addMessage is eventually settled, with a turn
\* or with null, provided armed timers eventually fire.
C3_EveryPromiseSettles == \A i \in 1..MaxCalls : IsPending(i) ~> IsSettled(i)

\* one promise was superseded, one was settled by cancelBuffer, one by a flush
C3_Witness ==
    \E i, j, n \in 1..Len(promises) :
        /\ promises[i] = Superseded /\ i \notin cancelled
        /\ promises[j] = Superseded /\ j \in cancelled
        /\ promises[n].status = "turn"

(***************************************************************************)
(* Claims on the conversation mode router and the pause manager            *)
(***************************************************************************)
\* the step in which turn i leaves the block-list lookup and is routed
RouteStep(i) ==
    /\ i \in 1..Len(turns)
    /\ turns[i].pc = "blacklist"
    /\ turns'[i].pc # "blacklist"

\* the step in which turn i returns from processMessage
ReturnStep(i) ==
    /\ i \in 1..Len(turns)
    /\ turns[i].pc # "done"
    /\ turns'[i].pc = "done"

\* the key of turn i has a pause record that has not expired
PausedNow(i) ==
    LET p == CleanNumber(turns[i].key)
    IN  pausedChats[p] # NoPause /\ now <= pausedChats[p].expiresAt

\* the key of turn i is on the block list, up to the digits of the numbers
OnBlacklist(i) ==
    \E n \in 1..Len(blacklist) :
        \/ Includes(CleanNumber(turns[i].key), CleanNumber(blacklist[n]))
        \/ Includes(CleanNumber(blacklist[n]), CleanNumber(turns[i].key))

\* the step that handles turn i: the first, in the order of the claim, of
\* the tests that holds in the state the turn finds
FirstMatch(i, route) ==
    LET blocked == turns'[i].isBlocked
        paused == PausedNow(i)
        intent == \E w \in HandoffKeywords : Includes(ToLowerCase(turns[i].text), w)
        active == activeSurveys[turns[i].key] # NoSurvey
        keyword == Trim(ToLowerCase(turns[i].text)) = SurveyKeyword
    IN  IF blocked THEN route = "blocked"
        ELSE IF paused THEN route = "paused"
        ELSE /\ intent => route = "handoff"
             /\ (~intent /\ active) => route = "survey"
             /\ (~intent /\ ~active /\ keyword) => route = "start"
             /\ (~intent /\ ~active /\ ~keyword) => route = "fallback"

\* what a turn handled by a step may send
StepSends(route) ==
    CASE route = "handoff" -> {"ack", "admin"}
      [] route \in {"survey", "start", "fallback"} -> {"reply"}
      [] OTHER -> {}

StepBodies(route) ==
    CASE route = "handoff" -> {"customerMessage", "adminMessage"}
      [] route = "survey" -> {"question", "thankYouMessage"}
      [] route = "start" -> {"welcomeMessage", "noQuestions"}
      [] route = "fallback" -> {"responder"}
      [] OTHER -> {}

\* C4: the router handles a turn by the first test that holds, in the order
\* block list, pause, handoff intent, active survey, survey keyword, fallback;
\* a blocked turn returns at once and changes no pause record or survey
\* session and sends nothing, whatever its text; a turn creates a pause
\* record only in the handoff step and touches a session only in the survey
\* steps, and all it ever sends belongs to the step that handled it
C4_FirstMatchOnly ==
    [][\A i \in 1..Len(turns) : turns'[i] # turns[i] =>
        /\ RouteStep(i) =>
              /\ FirstMatch(i, turns'[i].route)
              /\ turns'[i].isBlocked => OnBlacklist(i)
              /\ turns'[i].route = "blocked" =>
                    /\ pausedChats' = pausedChats
                    /\ activeSurveys' = activeSurveys
                    /\ turns'[i].log = <<>>
                    /\ turns'[i].pc = "done"
              /\ turns'[i].route # "handoff" =>
                    \A p \in CleanNumbers : pausedChats'[p] \in {pausedChats[p], NoPause}
              /\ turns'[i].route # "survey" => activeSurveys' = activeSurveys
        /\ \A j \in 1..Len(turns'[i].log) :
              /\ turns'[i].log[j].kind \in StepSends(turns'[i].route)
              /\ turns'[i].log[j].body[1] \in StepBodies(turns'[i].route)
        /\ ReturnStep(i) =>
              (turns'[i].log = <<>> <=> turns'[i].route \in {"blocked", "paused"})
        /\ turns[i].route # "none" => turns'[i].route = turns[i].route
      ]_vars

\* a blocked sender's turn with a handoff phrase has returned: nothing sent,
\* nobody paused
C4_Witness ==
    \E i \in 1..Len(turns) :
        /\ turns[i].pc = "done"
        /\ turns[i].route = "blocked"
        /\ turns[i].text = TextHandoff
        /\ turns[i].log = <<>>
        /\ \A p \in CleanNumbers : pausedChats[p] = NoPause
        /\ \E j \in 1..Len(turns) : turns[j].route = "fallback" /\ turns[j].pc = "done"

\* C5: a turn of an unblocked key whose pause record has not expired returns
\* at once: the pause store (the record and its expiresAt included), the
\* survey sessions, the question list and the survey results stay as they
\* were, and the turn sends no reply and no notification
C5_PausedTurnChangesNothing ==
    [][\A i \in 1..Len(turns) :
        (RouteStep(i) /\ ~turns'[i].isBlocked /\ PausedNow(i)) =>
            /\ pausedChats' = pausedChats
            /\ surveyVars' = surveyVars
            /\ turns'[i].route = "paused"
            /\ turns'[i].log = <<>>
            /\ turns'[i].pc = "done"
            /\ \A j \in 1..Len(turns) : j # i => turns'[j] = turns[j]
      ]_vars

\* a handoff phrase of a paused key has been dropped: the record made by the
\* first handoff is still the one in the store
C5_Witness ==
    \E i, j \in 1..Len(turns) :
        /\ j < i
        /\ turns[i].key = turns[j].key
        /\ turns[j].route = "handoff"
        /\ turns[i].route = "paused"
        /\ turns[i].pc = "done"
        /\ turns[i].text = TextHandoff
        /\ turns[i].log = <<>>
        /\ pausedChats[CleanNumber(turns[i].key)] # NoPause
        /\ pausedChats[CleanNumber(turns[i].key)].pausedAt < now

\* the text of turn i holds a handoff phrase, in any letter case
HasHandoffPhrase(i) ==
    \E w \in HandoffKeywords : Includes(ToLowerCase(turns[i].text), w)

\* the sends of a log, by kind
KindsOf(log) == [j \in 1..Len(log) |-> log[j].kind]

\* the notifications a handoff has attempted when it returns: always the
\* acknowledgement; the admin alert always (alerted), or when an admin
\* recipient is configured
HandoffSends(alerted) ==
    IF alerted \/ adminWhatsapp # <<>> THEN <<"ack", "admin">> ELSE <<"ack">>

\* what a handoff turn does, step by step
HandoffContract(i, alerted) ==
    LET p == CleanNumber(turns[i].key)
    IN  /\ (RouteStep(i) /\ ~turns'[i].isBlocked /\ ~PausedNow(i) /\ HasHandoffPhrase(i)) =>
              /\ turns'[i].route = "handoff"
              /\ turns'[i].pc = "ackSend"
              /\ pausedChats'[p] = [pausedAt |-> now,
                                    expiresAt |-> now + (pauseMinutes * MsPerMinute),
                                    reason |-> turns[i].text]
              /\ \A q \in CleanNumbers \ {p} : pausedChats'[q] = pausedChats[q]
              /\ surveyVars' = surveyVars
        /\ turns[i].route = "handoff" =>
              /\ pausedChats' = pausedChats
              /\ surveyVars' = surveyVars
        /\ (ReturnStep(i) /\ turns'[i].route = "handoff") =>
              /\ KindsOf(turns'[i].log) = HandoffSends(alerted)
              /\ turns'[i].log[1].to = p
              /\ turns'[i].log[1].body = <<"customerMessage">>
              /\ Len(turns'[i].log) > 1 =>
                    /\ turns'[i].log[2].to = adminWhatsapp
                    /\ turns'[i].log[2].body = <<"adminMessage", p, turns[i].text>>

\* C6 (as amended): for an unblocked, unpaused key whose turn text holds a
\* handoff phrase, the router stores a pause record for the key with
\* expiresAt = pausedAt + pauseMinutes, leaves every other record and the
\* survey engine alone, attempts the fixed acknowledgement to the sender,
\* attempts the admin alert when an admin recipient is configured, and
\* returns without a reply of the survey engine or of the responder chain
C6_HandoffPausesAndNotifies ==
    [][\A i \in 1..Len(turns) : turns'[i] # turns[i] => HandoffContract(i, FALSE)]_vars

\* a handoff with a configured admin has returned: record in place, both
\* notifications attempted
C6_Witness ==
    \E i \in 1..Len(turns) :
        LET rec == pausedChats[CleanNumber(turns[i].key)]
        IN  /\ turns[i].pc = "done"
            /\ turns[i].route = "handoff"
            /\ turns[i].text = TextHandoff
            /\ KindsOf(turns[i].log) = <<"ack", "admin">>
            /\ turns[i].log[1].ok
            /\ rec # NoPause
            /\ rec.reason = TextHandoff
            /\ rec.expiresAt = rec.pausedAt + (pauseMinutes * MsPerMinute)

\* C6 as stated: the same, with the admin alert attempted in every handoff
C6_AdminAlwaysAlerted ==
    [][\A i \in 1..Len(turns) : turns'[i] # turns[i] => HandoffContract(i, TRUE)]_vars

\* the number of sends of a kind in a log
CountKind(log, kind) == Cardinality({j \in 1..Len(log) : log[j].kind = kind})

\* C7 (as amended): a handoff attempts at most one message to the sender
\* and at most one to the admin; when it has returned it has attempted
\* exactly one to the sender, and exactly one to the admin if an admin
\* recipient is configured, none otherwise
C7_OneMessageEach ==
    \A i \in 1..Len(turns) :
        /\ CountKind(turns[i].log, "ack") <= 1
        /\ CountKind(turns[i].log, "admin") <= 1
        /\ \A j \in 1..Len(turns[i].log) :
              /\ turns[i].log[j].kind = "ack" => turns[i].log[j].to = CleanNumber(turns[i].key)
              /\ turns[i].log[j].kind = "admin" => turns[i].log[j].to = adminWhatsapp
        /\ (turns[i].pc = "done" /\ turns[i].route = "handoff") =>
              /\ CountKind(turns[i].log, "ack") = 1
              /\ CountKind(turns[i].log, "admin") = IF adminWhatsapp # <<>> THEN 1 ELSE 0

\* two handoffs have returned under the default configuration: one message
\* to the sender each, none to an admin
C7_Witness ==
    /\ adminWhatsapp = <<>>
    /\ pauseMinutes = PauseMinutes
    /\ \E i, j \in 1..Len(turns) :
          /\ i # j
          /\ \A n \in {i, j} :
                /\ turns[n].pc = "done"
                /\ turns[n].route = "handoff"
                /\ CountKind(turns[n].log, "ack") = 1
                /\ CountKind(turns[n].log, "admin") = 0

\* C7 as stated: every handoff that has returned sent exactly one message to
\* the sender and exactly one to the admin
C7_AlwaysOneToAdmin ==
    \A i \in 1..Len(turns) :
        (turns[i].pc = "done" /\ turns[i].route = "handoff") =>
            /\ CountKind(turns[i].log, "ack") = 1
            /\ CountKind(turns[i].log, "admin") = 1

\* C8: the handoff step stores the pause record before anything is sent;
\* neither notification, sent or failed, changes the pause store, so the
\* record outlives the handoff; and after the attempt to the sender, failed
\* or not, the handoff goes on to the admin alert if an admin is configured
C8_PauseSurvivesNotifications ==
    [][\A i \in 1..Len(turns) : turns'[i] # turns[i] =>
        LET p == CleanNumber(turns[i].key)
        IN  /\ turns'[i].pc = "ackSend" =>
                  /\ RouteStep(i)
                  /\ turns'[i].log = <<>>
                  /\ pausedChats'[p] # NoPause
                  /\ pausedChats'[p].pausedAt = now
                  /\ pausedChats'[p].reason = turns[i].text
            /\ turns[i].pc = "ackSend" =>
                  /\ pausedChats' = pausedChats
                  /\ KindsOf(turns'[i].log) = <<"ack">>
                  /\ turns'[i].pc = IF adminWhatsapp # <<>> THEN "adminSend" ELSE "done"
            /\ turns[i].pc = "adminSend" =>
                  /\ pausedChats' = pausedChats
                  /\ KindsOf(turns'[i].log) = <<"ack", "admin">>
                  /\ turns'[i].pc = "done"
      ]_vars

\* both notifications of a handoff have failed and the record it stored is
\* in the store
C8_Witness ==
    \E i \in 1..Len(turns) :
        LET rec == pausedChats[CleanNumber(turns[i].key)]
        IN  /\ turns[i].pc = "done"
            /\ turns[i].route = "handoff"
            /\ KindsOf(turns[i].log) = <<"ack", "admin">>
            /\ ~turns[i].log[1].ok
            /\ ~turns[i].log[2].ok
            /\ rec # NoPause
            /\ rec.reason = turns[i].text
            /\ now <= rec.expiresAt

\* C9: a pause just made answers isPaused with true; isPaused of an
\* unblocked key's turn answers true while the clock has not passed the
\* record's expiresAt (the instant expiresAt included) and leaves the store
\* alone; once the clock has passed expiresAt it answers false and removes
\* the record; with no record it answers false, and a record comes into the
\* store only by a new pause
C9_PauseExpiresLazily ==
    [][/\ \A i \in 1..Len(turns) : (RouteStep(i) /\ ~turns'[i].isBlocked) =>
            LET p == CleanNumber(turns[i].key)
                rec == pausedChats[p]
                paused == turns'[i].route = "paused"
                renewed == /\ turns'[i].route = "handoff"
                           /\ pausedChats'[p] # NoPause
                           /\ pausedChats'[p].pausedAt = now
            IN  /\ (rec # NoPause /\ now <= rec.expiresAt) =>
                      (paused /\ ~turns'[i].evicted /\ pausedChats' = pausedChats)
                /\ (rec # NoPause /\ now > rec.expiresAt) =>
                      (~paused /\ turns'[i].evicted /\ (pausedChats'[p] = NoPause \/ renewed))
                /\ rec = NoPause =>
                      (~paused /\ ~turns'[i].evicted /\ (pausedChats'[p] = NoPause \/ renewed))
                /\ renewed => IsPausedResult(pausedChats', turns[i].key, now')
       /\ \A p \in CleanNumbers :
            (pausedChats'[p] # NoPause /\ pausedChats'[p] # pausedChats[p]) =>
                \E i \in 1..Len(turns) :
                    /\ RouteStep(i)
                    /\ CleanNumber(turns[i].key) = p
                    /\ turns'[i].route = "handoff"
      ]_vars

\* a key paused by a first turn has sent a second turn after the expiry:
\* isPaused removed the record and the turn was answered
C9_Witness ==
    \E i, j \in 1..Len(turns) :
        /\ j < i
        /\ turns[j].key = turns[i].key
        /\ turns[j].route = "handoff"
        /\ turns[i].evicted
        /\ turns[i].route = "fallback"
        /\ turns[i].pc = "done"
        /\ pausedChats[CleanNumber(turns[i].key)] = NoPause

\* the phones getPausedChats lists
ListedPhones == {e.phone : e \in GetPausedChats(pausedChats, now)}

\* C10: getPausedChats leaves the pause store as it is and lists exactly the
\* records whose expiresAt has not passed; a record leaves the store only
\* in the isPaused of a turn of its key, once expired, or by resumeChat
C10_ListingIsPureRead ==
    [][/\ ListPausedChats => pausedChats' = pausedChats
       /\ ListedPhones =
             {p \in CleanNumbers : pausedChats[p] # NoPause /\ now <= pausedChats[p].expiresAt}
       /\ \A p \in CleanNumbers :
            (pausedChats[p] # NoPause /\ pausedChats'[p] # pausedChats[p]) =>
                \/ \E i \in 1..Len(turns) :
                      /\ RouteStep(i)
                      /\ CleanNumber(turns[i].key) = p
                      /\ turns'[i].evicted
                      /\ now > pausedChats[p].expiresAt
                \/ \E number \in ResumeNumbers :
                      /\ CleanNumber(number) = p
                      /\ ResumeChat(number)
      ]_vars

\* an expired record is still in the store, and the listing shows only the
\* other key, paused at this instant for the whole pause period
C10_Witness ==
    \E p, q \in CleanNumbers :
        /\ pausedChats[p] # NoPause
        /\ now > pausedChats[p].expiresAt
        /\ pausedChats[q] # NoPause
        /\ pausedChats[q].pausedAt = now
        /\ ListedPhones = {q}
        /\ \A e \in GetPausedChats(pausedChats, now) : e.remainingMinutes = pauseMinutes

(***************************************************************************)
(* Claims on resume, pause precedence and the survey flow engine           *)
(***************************************************************************)
\* C11: resume(key) removes the pause record of the key and answers true
\* exactly when the store held a record for it before the call, expired or
\* not; otherwise it answers false and changes nothing; it never touches the
\* record of another key, and after it isPaused(key) is false
C11_ResumeRemovesOwnRecord ==
    [][\A number \in ResumeNumbers : ResumeChat(number) =>
        LET key == CleanNumber(number)
            resumed == ResumeChatResult(pausedChats, number)
        IN  /\ resumed <=> pausedChats[key] # NoPause
            /\ pausedChats'[key] = NoPause
            /\ ~resumed => pausedChats' = pausedChats
            /\ \A other \in CleanNumbers \ {key} :
                   pausedChats'[other] = pausedChats[other]
            /\ ~IsPausedResult(pausedChats', number, now')
            /\ IsPausedStore(pausedChats', number, now') = pausedChats'
      ]_vars

\* both keys are paused, one of the pauses has expired and is still in the
\* store: a resume of either key is about to answer true
C11_Witness ==
    /\ \A p \in CleanNumbers : pausedChats[p] # NoPause
    /\ \E p \in CleanNumbers : now > pausedChats[p].expiresAt
    /\ \A number \in ResumeNumbers : ResumeChatResult(pausedChats, number)
    /\ \E number \in ResumeNumbers : ~IsPausedResult(pausedChats, number, now)

\* C12: a pause record takes precedence over the continuation of a survey:
\* a turn routed while its key is paused is dropped as paused, is never
\* handed to the survey engine then or later, and leaves every survey
\* session, step and answers, as it was
C12_PauseBeforeSurvey ==
    [][\A i \in 1..Len(turns) : turns'[i] # turns[i] =>
        /\ (RouteStep(i) /\ ~turns'[i].isBlocked /\ PausedNow(i)) =>
              /\ turns'[i].route = "paused"
              /\ turns'[i].pc = "done"
              /\ activeSurveys' = activeSurveys
              /\ responses' = responses
        /\ turns[i].route # "paused"
      ]_vars

\* a key with a survey in progress asked for a person and then wrote again:
\* the last turn, which would have been an answer, was dropped
C12_Witness ==
    \E i \in 1..Len(turns) :
        /\ turns[i].route = "paused"
        /\ turns[i].pc = "done"
        /\ turns[i].text = TextOther
        /\ activeSurveys[turns[i].key] # NoSurvey
        /\ activeSurveys[turns[i].key].answers = <<>>
        /\ pausedChats[CleanNumber(turns[i].key)] # NoPause

\* the step in which the pending saveSurveyResponses of turn i returns
SaveReturns(i) ==
    /\ i \in 1..Len(turns)
    /\ turns[i].pc = "save"
    /\ turns'[i].pc # "save"

\* the one reply a turn has sent
OnlyReply(i, body) == turns'[i].log = <<Sent("reply", turns[i].key, body, TRUE)>>

\* C13: an answer to a session at step i appends the text to the answers and
\* advances the session to step i+1; if i+1 is less than the length of the
\* snapshot the turn replies with question i+1 of the snapshot (counting from
\* 0) and the session stays; otherwise the answers are handed to the results
\* store, and when that call returns the turn replies with the fixed
\* thank-you text and the session is removed
C13_AnswerAdvancesOrCompletes ==
    [][\A i \in 1..Len(turns) :
        /\ (RouteStep(i) /\ turns'[i].route = "survey") =>
              LET key == turns[i].key
                  before == activeSurveys[key]
                  after == activeSurveys'[key]
                  step == before.currentQuestion
              IN  /\ before # NoSurvey
                  /\ after # NoSurvey
                  /\ after.answers = before.answers \o <<turns[i].text>>
                  /\ after.currentQuestion = step + 1
                  /\ after.questions = before.questions
                  /\ responses' = responses
                  /\ IF step + 1 < Len(before.questions)
                     THEN /\ turns'[i].pc = "done"
                          /\ OnlyReply(i, <<"question", step + 2,
                                            before.questions[step + 2]>>)
                     ELSE /\ turns'[i].pc = "save"
                          /\ turns'[i].log = <<>>
                          /\ SubSeq(turns'[i].row, 3, Len(turns'[i].row)) = after.answers
        /\ SaveReturns(i) =>
              /\ turns[i].route = "survey"
              /\ turns'[i].pc = "done"
              /\ OnlyReply(i, <<"thankYouMessage">>)
              /\ activeSurveys'[turns[i].key] = NoSurvey
              /\ responses' \in {responses, Append(responses, turns[i].row)}
      ]_vars

\* the only question of a survey was answered: the answer is in the results
\* store, the thank-you text was sent and the session is gone
C13_Witness ==
    \E i \in 1..Len(turns) :
        /\ turns[i].route = "survey"
        /\ turns[i].pc = "done"
        /\ turns[i].log = <<Sent("reply", turns[i].key, <<"thankYouMessage">>, TRUE)>>
        /\ activeSurveys[turns[i].key] = NoSurvey
        /\ responses = <<turns[i].row>>
        /\ SubSeq(turns[i].row, 3, Len(turns[i].row)) = <<turns[i].text>>

\* the turn whose saveSurveyResponses wrote row n of the results store
Wrote(i, n) ==
    /\ turns[i].route = "survey"
    /\ turns[i].pc = "done"
    /\ turns[i].row = responses[n]

\* C14: whenever a session is completed and persisted, the persisted answers
\* are as many as the questions snapshotted at its start, one answer for
\* each question of the snapshot, also when turns of the same key overlap
\* the call that persists
C14_AnswersMatchSnapshot ==
    \A n \in 1..Len(responses) :
        \A i \in 1..Len(turns) :
            Wrote(i, n) => Len(responses[n]) - 2 = Len(turns[i].questions)

\* the step in which the startSurvey of a turn of key k stores a session
StartsSession(k) ==
    \E i \in 1..Len(turns) :
        /\ turns[i].key = k
        /\ turns[i].pc = "loadConfig"
        /\ turns'[i].pc = "done"
        /\ activeSurveys'[k] # activeSurveys[k]

\* C15: the question list of a session is fixed when the session starts: no
\* later step (a reload of the live list by the startSurvey of another key,
\* an edit of the sheet, an answer) changes the questions or their number in
\* a session in progress, and the session completes at the length of its own
\* list whatever the live list has become
C15_SnapshotFixedAtStart ==
    [][\A k \in Senders : activeSurveys[k] # NoSurvey =>
        /\ (activeSurveys'[k] # NoSurvey /\ ~StartsSession(k)) =>
              activeSurveys'[k].questions = activeSurveys[k].questions
        /\ \A i \in 1..Len(turns) :
              (RouteStep(i) /\ turns[i].key = k /\ turns'[i].route = "survey") =>
                  /\ turns'[i].pc = "save" <=>
                        activeSurveys'[k].currentQuestion
                            >= Len(activeSurveys[k].questions)
                  /\ turns'[i].pc = "save" =>
                        turns'[i].questions = activeSurveys[k].questions
      ]_vars

\* a session of three questions is at its second question, asked from its
\* own list, after the startSurvey of another key reloaded a live list of
\* one question
C15_Witness ==
    \E k \in Senders, i, j \in 1..Len(turns) :
        /\ activeSurveys[k] # NoSurvey
        /\ Len(activeSurveys[k].questions) = 3
        /\ Len(questions) = 1
        /\ activeSurveys[k].currentQuestion = 1
        /\ turns[i].key = k
        /\ turns[i].log = <<Sent("reply", k,
                                 <<"question", 2, activeSurveys[k].questions[2]>>,
                                 TRUE)>>
        /\ turns[j].key # k
        /\ turns[j].route = "start"
        /\ turns[j].pc = "done"
        /\ activeSurveys[turns[j].key] # NoSurvey
        /\ activeSurveys[turns[j].key].questions = questions

\* the step in which the startSurvey of turn i returns
StartReturns(i) ==
    /\ i \in 1..Len(turns)
    /\ turns[i].pc = "loadConfig"
    /\ turns'[i].pc # "loadConfig"

\* turn i reaches the keyword test of the router with the keyword as its text
\* and no session for its key
KeywordStep(i) ==
    /\ RouteStep(i)
    /\ ~turns'[i].isBlocked
    /\ ~PausedNow(i)
    /\ turns[i].text = SurveyKeyword
    /\ activeSurveys[turns[i].key] = NoSurvey

\* the session at its first question with no answers
AtFirstQuestion(survey) ==
    /\ survey # NoSurvey
    /\ survey.currentQuestion = 0
    /\ survey.answers = <<>>
    /\ survey.questions # <<>>

KeywordThenThreeAnswers ==
    /\ Len(turns) >= 4
    /\ \A j \in 1..4 : turns[j].pc = "done"
    /\ turns[1].text = SurveyKeyword
    /\ turns[1].log # <<>>
    /\ turns[1].log[1].body[1] = "welcomeMessage"
    /\ \A j \in 2..4 : turns[j].text \in AnswerTexts

\* turn j completed the session of its key
Completes(j) ==
    /\ turns[j].route = "survey"
    /\ turns[j].log = <<Sent("reply", turns[j].key, <<"thankYouMessage">>, TRUE)>>

\* the number of questions the session was started with: the length of the
\* list the start loaded, which the scenario does not reload before its
\* fourth turn has returned
ConfiguredAtStart == Len(questions)

\* C17: after the keyword "encuesta" has started a session, the third of
\* three sequential answers completes it if and only if exactly three
\* questions were configured at the start, and the row then handed to the
\* results store is [timestamp, digits of the key, answer1, answer2,
\* answer3]
C17_ThreeAnswersComplete ==
    (KeywordThenThreeAnswers /\ Len(turns) = 4) =>
        /\ Completes(4) <=> ConfiguredAtStart = 3
        /\ Completes(4) =>
              /\ turns[4].row = <<LocaleString(now), CleanNumber(turns[1].key),
                                  turns[2].text, turns[3].text, turns[4].text>>
              /\ responses \in {<<>>, <<turns[4].row>>}
              /\ activeSurveys[turns[1].key] = NoSurvey
        /\ ConfiguredAtStart < 3 => activeSurveys[turns[1].key] = NoSurvey
        /\ ConfiguredAtStart > 3 =>
              /\ activeSurveys[turns[1].key] # NoSurvey
              /\ activeSurveys[turns[1].key].currentQuestion = 3
              /\ responses = <<>>

\* three questions, the keyword and the answers si, no, si: the session is
\* complete and the row is in the results store
C17_Witness ==
    /\ KeywordThenThreeAnswers
    /\ Len(turns) = 4
    /\ ConfiguredAtStart = 3
    /\ Completes(4)
    /\ turns[2].text # turns[3].text
    /\ responses = <<turns[4].row>>
    /\ Len(turns[4].row) = 5

\* C17 as stated: the persisted record equals [key, answer1, answer2, answer3]
C17_RecordIsKeyAndAnswers ==
    (KeywordThenThreeAnswers /\ Len(turns) = 4) =>
        /\ Completes(4) <=> ConfiguredAtStart = 3
        /\ Completes(4) =>
              \A n \in 1..Len(responses) :
                  responses[n] = <<turns[1].key, turns[2].text, turns[3].text,
                                   turns[4].text>>

\* the step in which turn i calls the append of the results store
AppendInvoked(i) == RouteStep(i) /\ turns'[i].pc = "save"

\* C18: for every session that reaches completion the append of the results
\* store is invoked exactly once, that is never while an append for the same
\* session is still pending, and a session leaves the store only in the step
\* in which the append of a turn of its key returns
C18_AppendOnceThenRemove ==
    [][/\ \A i \in 1..Len(turns) :
              AppendInvoked(i) =>
                  \A j \in 1..Len(turns) :
                      (j # i /\ turns[j].key = turns[i].key) => turns[j].pc # "save"
       /\ \A k \in Senders :
              (activeSurveys[k] # NoSurvey /\ activeSurveys'[k] = NoSurvey) =>
                  \E i \in 1..Len(turns) : turns[i].key = k /\ SaveReturns(i)
      ]_vars

(***************************************************************************)
(* Claims on the scheduled dispatch engine                                 *)
(***************************************************************************)
\* the step in which checkDailyReset sets the counter back
ResetStep == lastResetDate' # lastResetDate

\* the step in which a cycle passes the test of the limit and goes on
CycleStarts == cycle.pc = "idle" /\ cycle'.pc = "fetch"

\* the step in which a delivery is attempted
SendAttempted == cycle.pc # "send" /\ cycle'.pc = "send"

\* C19: no more than maxDailyMessages messages are delivered within one
\* calendar day, and dailySentCount is set back to 0 exactly once for each
\* change of the calendar date a cycle observes: by the first cycle that
\* finds a date other than the stored one, and not again by later cycles on
\* that date
C19_DailyLimitPerCalendarDay ==
    [][/\ sentToday' <= MaxDailyMessages
       /\ ResetStep =>
             /\ cycle.pc = "idle"
             /\ lastResetDate' = ToDateString(now)
             /\ dailySentCount' = 0
       /\ (CycleStarts /\ lastResetDate = ToDateString(now)) =>
             /\ dailySentCount' = dailySentCount
             /\ lastResetDate' = lastResetDate
       /\ CycleStarts => lastResetDate' = ToDateString(now)
       /\ dailySentCount' < dailySentCount => ResetStep
      ]_vars

\* C20: dailySentCount is at most maxDailyMessages in every reachable
\* state, and no delivery is attempted while it is at or above the limit: a
\* cycle that finds the counter at the limit fetches nothing, and a cycle in
\* which the counter reaches the limit stops before the next entry
C20_NeverAboveLimit ==
    [][/\ dailySentCount' <= MaxDailyMessages
       /\ SendAttempted => dailySentCount' < MaxDailyMessages
       /\ CycleStarts => dailySentCount' < MaxDailyMessages
       /\ (cycle.pc = "idle" /\ dailySentCount' >= MaxDailyMessages) =>
             /\ cycle' = NoCycle
             /\ ~isProcessing'
             /\ envios' = envios
       /\ (cycle.pc \in {"delay", "errorStatus"}
              /\ dailySentCount >= MaxDailyMessages) =>
             cycle' \in {cycle, NoCycle}
      ]_vars

\* the counter has reached the limit in a cycle that has an entry left: the
\* delay is running and the loop is about to break
C20_Witness ==
    /\ dailySentCount = MaxDailyMessages
    /\ cycle.pc = "delay"
    /\ cycle.msg < Len(cycle.pendingMessages)


\* C21: one dispatch cycle at a time. The flag is up exactly while a cycle
\* is between its start and its end, and a processScheduledMessages call
\* made while the flag is up (from the interval or from startScheduler)
\* returns at once: it fetches nothing, sends nothing, writes no status and
\* leaves dailySentCount, isProcessing and the cycle in progress as they were.
PollStep == IntervalFires \/ StartScheduler
C21_OneCycleAtATime ==
    [][/\ isProcessing <=> cycle.pc # "idle"
       /\ (isProcessing /\ PollStep) =>
              UNCHANGED <<isProcessing, dailySentCount, lastResetDate, envios,
                          cycle, sentToday>>]_vars
\* a cycle is waiting for its send, inside the allowed hours and below the
\* limit, with the interval running: a poll here would start a cycle if
\* the flag did not stop it
C21_Witness ==
    /\ provider
    /\ isProcessing
    /\ cycle.pc = "send"
    /\ IsWithinAllowedHours(now)
    /\ ~LimitReached(CountAfterReset(dailySentCount, lastResetDate, now))

\* C22: the flag is set before the backlog fetch and cleared on every exit.
\* A cycle that starts awaits its fetch with the flag up; every step that
\* ends a cycle (empty backlog, failed fetch, limit reached in the loop, the
\* last entry sent or failed) leaves the flag down, and so does a call that
\* returns outside the allowed hours or at the limit; and whenever no cycle
\* is in progress, a call made inside the allowed hours and below the limit
\* starts a cycle.
CycleEnds == cycle.pc # "idle" /\ cycle'.pc = "idle"
C22_FlagClearedOnEveryExit ==
    [][/\ CycleStarts => isProcessing'
       /\ CycleEnds => ~isProcessing'
       /\ (PollStep /\ ~isProcessing /\ cycle'.pc = "idle") => ~isProcessing'
       /\ (PollStep /\ cycle.pc = "idle" /\ IsWithinAllowedHours(now)
             /\ ~LimitReached(CountAfterReset(dailySentCount, lastResetDate, now)))
            => cycle'.pc = "fetch"]_vars
\* cycles have ended after a delivery and after a failed send, and the
\* engine is idle with the flag down
C22_Witness ==
    /\ provider
    /\ cycle.pc = "idle"
    /\ ~isProcessing
    /\ \E i \in 1..Len(envios) : envios[i].estado = EstadoError
    /\ \E i \in 1..Len(envios) : envios[i].estado = EstadoEnviado

\* the text is a date and time DD/MM/YYYY HH:mm or DD/MM/YYYY HH:mm:ss that
\* exists: every field is written in digits, the month is from 1 to 12, the
\* day is a day of that month, the hour is below 24, minute and second
\* below 60
AllDigits(s) == s # <<>> /\ \A i \in 1..Len(s) : IsDigit(s[i])
DaysInMonth(y, m) == DaysFromCivil(y, m, 1) - DaysFromCivil(y, m - 1, 1)
RealDateTime(text) ==
    LET parts == Split(Trim(text), " ")
    IN  /\ Len(parts) = 2
        /\ LET dateParts == Split(parts[1], "/")
               timeParts == Split(parts[2], ":")
           IN  /\ Len(dateParts) = 3
               /\ Len(timeParts) \in {2, 3}
               /\ \A k \in 1..3 : AllDigits(dateParts[k])
               /\ \A k \in 1..Len(timeParts) : AllDigits(timeParts[k])
               /\ DigitsValue(dateParts[2]) \in 1..12
               /\ DigitsValue(dateParts[1]) \in
                      1..DaysInMonth(DigitsValue(dateParts[3]), DigitsValue(dateParts[2]))
               /\ DigitsValue(timeParts[1]) < 24
               /\ \A k \in 2..Len(timeParts) : DigitsValue(timeParts[k]) < 60
\* the filter returns: the cycle leaves its fetch
FetchReturns == cycle.pc = "fetch" /\ cycle'.pc # "fetch"
\* the status of row i of the sheet is written
StatusWritten(i) == envios'[i].estado # envios[i].estado
\* the send of row i of the sheet begins
SendBegins(i) == SendAttempted /\ cycle'.pendingMessages[cycle'.msg].rowIndex = i + 1

\* C23: a pending row whose column D is not a real date and time (day 31 of
\* February with hour 99, or words in place of numbers) is left out of the
\* due entries by the filter, which logs it, and no cycle ever sends it or
\* writes its status.
C23_UnrealHourNeverDelivered ==
    [][\A i \in 1..Len(envios) :
          ~RealDateTime(envios[i].hora) =>
             /\ FetchReturns =>
                   \A k \in 1..Len(cycle'.pendingMessages) :
                      cycle'.pendingMessages[k].rowIndex # i + 1
             /\ (FetchReturns /\ cycle'.pc = "send"
                  /\ ToLowerCase(envios[i].estado) = ToLowerCase(EstadoPendiente)) =>
                   LogsInvalidHour(GetScheduledMessages(envios, TRUE)[i])
             /\ ~SendBegins(i)
             /\ ~StatusWritten(i)]_vars

\* C24: within one cycle each entry is sent at most once, and the engine
\* writes a status only over a pending one and only as sent or failed. The
\* entries of a cycle are rows of the sheet, no row twice, taken in order
\* without going back; a send begins only for a row that is pending and due
\* in the sheet at that moment; and a status that changes was pending and
\* becomes 'Enviado' or 'Error'.
RowPending(i) == ToLowerCase(GetScheduledMessages(envios, TRUE)[i].estado) = ToLowerCase(EstadoPendiente)
SendFails == cycle.pc = "send" /\ cycle'.pc = "errorStatus"
ErrorWriteReturns == cycle.pc = "errorStatus" /\ cycle'.pc # "errorStatus"
C25_FailureDoesNotStopCycle ==
    [][/\ SendFails =>
             /\ cycle'.msg = cycle.msg
             /\ UNCHANGED <<dailySentCount, sentToday, envios>>
       /\ ErrorWriteReturns =>
             LET row == cycle.pendingMessages[cycle.msg].rowIndex - 1
             IN  /\ UNCHANGED <<dailySentCount, sentToday>>
                 /\ envios'[row].estado \in {EstadoError, envios[row].estado}
                 /\ \A i \in 1..Len(envios) : i # row => envios'[i] = envios[i]
                 /\ IF cycle.msg < Len(cycle.pendingMessages) /\ ~LimitReached(dailySentCount)
                    THEN /\ cycle'.pc = "send"
                         /\ cycle'.msg = cycle.msg + 1
                         /\ cycle'.pendingMessages = cycle.pendingMessages
                    ELSE cycle'.pc = "idle"]_vars
\* the first entry of a cycle failed and is marked 'Error', nothing was
\* counted, and the cycle is sending its second entry
C25_Witness ==
    /\ cycle.pc = "send"
    /\ cycle.msg = 2
    /\ envios[cycle.pendingMessages[1].rowIndex - 1].estado = EstadoError
    /\ dailySentCount = 0
    /\ sentToday = 0

\* C26: inside a cycle a delay is taken between every two consecutive sends
\* and none after the last send, the cycle that ends at the limit included.
\* After a delivery and its status write the cycle either ends or waits the
\* delay, never sends at once; and every delay that is over is followed by
\* the send of the next entry. (The length of the delay is not part of the
\* state.)
DelayIsOver == cycle.pc = "delay" /\ cycle'.pc # "delay"
C26_DelayOnlyBetweenSends ==
    [][/\ cycle.pc = "status" => cycle'.pc \in {"status", "delay", "idle"}
       /\ DelayIsOver => cycle'.pc = "send"]_vars

\* C27: every send of the engine begins while the hour of the clock is
\* inside the allowed hours, from startHour up to but not endHour, the later
\* sends of a cycle that started inside them included.
C27_SendsInsideAllowedHours ==
    [][SendAttempted => IsWithinAllowedHours(now)]_vars

(***************************************************************************)
(* Claims on the router under overlapping turns and failed lookups         *)
(***************************************************************************)
\* turn i is inside processMessage
InProgress(i) == turns[i].pc # "done"
\* a step of turn i that changes the pause records or the session of its key
Mutates(i) ==
    /\ turns'[i].pc # turns[i].pc
    /\ \/ activeSurveys'[turns[i].key] # activeSurveys[turns[i].key]
       \/ pausedChats' # pausedChats

\* C28: no two processMessage calls for the same key are in progress at the
\* same time, so no step of a turn changes the pause record or the session
\* of its key while another turn of that key is inside processMessage.
C28_OneHandlerPerKey ==
    [][/\ \A i, j \in 1..Len(turns) :
             (i # j /\ turns[i].key = turns[j].key) => ~(InProgress(i) /\ InProgress(j))
       /\ \A i \in 1..Len(turns) :
             Mutates(i) =>
                \A j \in 1..Len(turns) :
                   (j # i /\ turns[j].key = turns[i].key) => ~InProgress(j)]_vars

\* C29: a block-list lookup that fails counts as "not blocked": the turn is
\* not marked blocked and does not end there; it goes on to the pause test
\* and is handled by the first of the remaining tests that holds, as the
\* turn of a key that is on no block list.
C29_FailedLookupIsNotBlocked ==
    [][\A i \in 1..Len(turns) :
          RouteTurn(i, FALSE) =>
             /\ ~turns'[i].isBlocked
             /\ turns'[i].route \notin {"none", "blocked"}
             /\ FirstMatch(i, turns'[i].route)
             /\ (~PausedNow(i)) => turns'[i].pc # "done" \/ turns'[i].log # <<>>]_vars
\* the turn of a key that is on the block list has been answered: its
\* lookup failed
C29_Witness ==
    \E i \in 1..Len(turns) :
        /\ OnBlacklist(i)
        /\ turns[i].pc = "done"
        /\ turns[i].route = "fallback"
        /\ turns[i].log # <<>>

(***************************************************************************)
(* Claims on the stores of the message buffer                              *)
(***************************************************************************)
\* the calls of key k whose promise is not settled
Waiting(k) == {j \in 1..Len(calls) : calls[j].key = k /\ promises[j].status = "pending"}
\* the armed timers of key k
Armed(k) == {t \in timers : t.key = k}
\* one PendingTurn and one timer per key: the calls of a key that still wait
\* are one when the key has a PendingTurn, the call that PendingTurn resolves,
\* and none when it has not; the armed timers of a key are at most one, the
\* one its PendingTurn holds, and none when it has no PendingTurn
OneTurnOneTimer ==
    \A k \in Senders :
        /\ Cardinality(Armed(k)) <= 1
        /\ IF buffers[k] = NoBuffer
           THEN Waiting(k) = {} /\ Armed(k) = {}
           ELSE /\ Waiting(k) = {buffers[k].resolve}
                /\ \A t \in Armed(k) : t.h = buffers[k].timeout /\ t.h = buffers[k].resolve
\* a timer callback flushes the PendingTurn of key k
TimerFlushes(k) ==
    /\ buffers[k] # NoBuffer
    /\ buffers'[k] = NoBuffer
    /\ calls' = calls
    /\ cancelled' = cancelled

\* C30: in every reachable state a key has at most one PendingTurn and at
\* most one armed flush timer, a timer is armed only for a key that has a
\* PendingTurn, and a PendingTurn is flushed by a timer only by the timer its
\* last fragment armed, at that timer's deadline: never by a timer of an
\* earlier wait window or of a turn already flushed.
C30_OneTurnOneTimerPerKey ==
    [][/\ OneTurnOneTimer
       /\ OneTurnOneTimer'
       /\ \A k \in Senders :
             TimerFlushes(k) =>
                \E t \in timers :
                   /\ t \notin timers'
                   /\ t.key = k
                   /\ t.h = buffers[k].timeout
                   /\ t.h = buffers[k].resolve
                   /\ t.at <= now
                   /\ t.at = arrivals[k].last
                             + WaitTime(waitTimeMs, arrivals[k].last - buffers[k].firstMessageTime)]_vars
\* a key whose earlier turn was flushed has a PendingTurn of two fragments
\* and one armed timer, the one of its last fragment
C30_Witness ==
    \E k \in Senders :
        /\ buffers[k] # NoBuffer
        /\ Len(buffers[k].messages) >= 2
        /\ Armed(k) # {}
        /\ \E j \in 1..Len(calls) : calls[j].key = k /\ promises[j].status = "turn"

(***************************************************************************)
(* Further claims on the scheduled dispatch engine                         *)
(***************************************************************************)
\* a processScheduledMessages call that passes the guard
CycleCalled == PollStep /\ ~isProcessing

\* C31: a cycle called outside the allowed hours changes nothing: no fetch,
\* no send, no status write, the counter and the stored date as they were. A
\* cycle called inside them on a date other than the stored one sets the
\* counter to 0 and stores the new date before the limit is compared, so it
\* goes on to its fetch whatever the counter was.
C31_HoursThenReset ==
    [][CycleCalled =>
          /\ ~IsWithinAllowedHours(now) =>
                UNCHANGED <<isProcessing, dailySentCount, lastResetDate, envios,
                            cycle, sentToday>>
          /\ (IsWithinAllowedHours(now) /\ lastResetDate # ToDateString(now)) =>
                /\ dailySentCount' = 0
                /\ lastResetDate' = ToDateString(now)
                /\ cycle'.pc = "fetch"
                /\ isProcessing'
          /\ (IsWithinAllowedHours(now) /\ lastResetDate = ToDateString(now)) =>
                /\ UNCHANGED <<dailySentCount, lastResetDate>>
                /\ cycle'.pc = "fetch" <=> ~LimitReached(dailySentCount)]_vars
\* on the second day a cycle has set the counter back after a delivery of
\* the first day and awaits its fetch
C31_Witness ==
    /\ now >= MsPerDay
    /\ cycle.pc = "fetch"
    /\ dailySentCount = 0
    /\ lastResetDate = ToDateString(now)
    /\ envios[1].estado = EstadoEnviado

(***************************************************************************)
(* Further claims on the debounce aggregator                               *)
(***************************************************************************)
\* the calls of key k that closed a PendingTurn: flushed, or cancelled
TurnEnds(k) ==
    {n \in 1..Len(calls) :
        calls[n].key = k /\ (promises[n].status = "turn" \/ n \in cancelled)}
\* the last call before the n-th that closed a PendingTurn of key k, or 0
EndBefore(k, n) ==
    LET ends == {m \in TurnEnds(k) : m < n}
    IN  IF ends = {} THEN 0 ELSE CHOOSE m \in ends : \A e \in ends : e <= m

\* the fragments of key k that arrived after its last flush or cancel
Unflushed(k) == FragmentsFrom(EndBefore(k, Len(calls) + 1) + 1, Len(calls), k)
\* every resolved turn carries exactly the fragments of its key that arrived
\* after the previous flush or cancel of that key, up to its own, in order;
\* the fragments after the last flush or cancel are exactly the ones the
\* PendingTurn of the key holds
FragmentsAccounted ==
    /\ \A n \in 1..Len(calls) :
          promises[n].status = "turn" =>
             LET fragments == FragmentsFrom(EndBefore(calls[n].key, n) + 1, n, calls[n].key)
             IN  /\ promises[n].count = Len(fragments)
                 /\ promises[n].combined = Join(fragments, Separator)
    /\ \A k \in Senders :
          IF Unflushed(k) = <<>> THEN buffers[k] = NoBuffer
          ELSE buffers[k] # NoBuffer /\ buffers[k].messages = Unflushed(k)

\* C32: every fragment addMessage accepted is in exactly one resolved turn,
\* never in two and never dropped, unless cancelBuffer discarded its
\* PendingTurn; after a flush the next fragment of the key starts a fresh
\* PendingTurn that holds that fragment alone and has the time of its
\* arrival as first-fragment time, which later fragments do not change.
C32_EveryFragmentInOneTurn ==
    [][/\ FragmentsAccounted'
       /\ \A k \in Senders :
             /\ (buffers[k] = NoBuffer /\ buffers'[k] # NoBuffer) =>
                   /\ buffers'[k].firstMessageTime = now
                   /\ buffers'[k].messages = <<calls'[Len(calls')].text>>
             /\ (buffers[k] # NoBuffer /\ buffers'[k] # NoBuffer) =>
                   buffers'[k].firstMessageTime = buffers[k].firstMessageTime]_vars
\* a turn of two fragments was flushed, and a later fragment of the key is
\* alone in a PendingTurn whose first-fragment time is its own arrival
C32_Witness ==
    \E n \in 1..Len(calls) :
        LET k == calls[n].key
        IN  /\ promises[n].status = "turn"
            /\ promises[n].count = 2
            /\ buffers[k] # NoBuffer
            /\ Len(buffers[k].messages) = 1
            /\ buffers[k].firstMessageTime > 0
            /\ buffers[k].firstMessageTime = arrivals[k].last

\* the send of the entry in hand returns: the message is delivered
Delivers == cycle.pc = "send" /\ cycle'.pc = "status"

\* C33: a row that has been delivered in some cycle is not delivered again
\* by a later cycle, also when the write of 'Enviado' after the delivery
\* failed.
C33_DeliveredOnce ==
    [][Delivers => cycle.pendingMessages[cycle.msg].rowIndex \notin delivered]_vars

\* C34: inside a cycle every send but the first begins when a delay is over,
\* also when the send before it failed. (The first send of a cycle begins
\* when the fetch returns.)
C34_DelayBeforeEveryLaterSend ==
    [][(SendAttempted /\ cycle.pc # "fetch") => cycle.pc = "delay"]_vars

(***************************************************************************)
(* Claims on pauses and surveys of one key                                 *)
(***************************************************************************)
\* the text of turn i holds a handoff phrase
HasIntent(i) == DetectHandoffIntent(turns[i].text)
\* the key of turn i has a session
HasSession(i) == activeSurveys[turns[i].key] # NoSurvey

\* C35: a handoff phrase from a key that has a session pauses the key and
\* leaves the session as it is: the step that routes the turn stores a pause
\* record and changes no session, and no later step of that turn changes
\* one. A turn without a handoff phrase that is routed when the key is not
\* paused (after a resume or the expiry) and has a session is recorded as
\* the answer to the question the session stands at: the answers grow by
\* that text, the index by one, the questions stay.
C35_HandoffKeepsSession ==
    [][\A i \in 1..Len(turns) :
          LET k == turns[i].key
              survey == activeSurveys[k]
          IN  /\ (RouteStep(i) /\ ~turns'[i].isBlocked /\ ~PausedNow(i)
                   /\ HasIntent(i) /\ HasSession(i)) =>
                    /\ turns'[i].route = "handoff"
                    /\ pausedChats'[CleanNumber(k)] # NoPause
                    /\ pausedChats'[CleanNumber(k)].pausedAt = now
                    /\ activeSurveys' = activeSurveys
              /\ (turns[i].route = "handoff" /\ turns'[i] # turns[i]) =>
                    activeSurveys' = activeSurveys
              /\ (RouteStep(i) /\ ~turns'[i].isBlocked /\ ~PausedNow(i)
                   /\ ~HasIntent(i) /\ HasSession(i)) =>
                    /\ turns'[i].route = "survey"
                    /\ activeSurveys'[k].answers = Append(survey.answers, turns[i].text)
                    /\ activeSurveys'[k].currentQuestion = survey.currentQuestion + 1
                    /\ activeSurveys'[k].questions = survey.questions]_vars
\* a handoff turn was acknowledged, its pause has expired, and the turn that
\* found the expired record is recorded as the first answer of the session
C35_Witness ==
    \E i, j \in 1..Len(turns) :
        /\ turns[i].route = "handoff"
        /\ turns[i].pc = "done"
        /\ turns[j].route = "survey"
        /\ turns[j].evicted
        /\ turns[j].pc = "done"
        /\ activeSurveys[turns[j].key] # NoSurvey
        /\ activeSurveys[turns[j].key].answers = <<turns[j].text>>
        /\ activeSurveys[turns[j].key].currentQuestion = 1

\* C36: a turn with a handoff phrase from a key whose pause record has not
\* expired leaves the pause store as it was (the record and its expiresAt
\* included) and returns having sent nothing, no acknowledgement and no
\* alert to the admin; a step of the router that puts another record in the
\* place of one finds the old one expired, the clock past its expiresAt.
C36_PausedHandoffChangesNoPause ==
    [][/\ \A i \in 1..Len(turns) :
            (RouteStep(i) /\ PausedNow(i) /\ HasHandoffPhrase(i)) =>
                /\ pausedChats' = pausedChats
                /\ turns'[i].route \in {"blocked", "paused"}
                /\ turns'[i].pc = "done"
                /\ turns'[i].log = <<>>
       /\ \A p \in DOMAIN pausedChats :
            (pausedChats[p] # NoPause /\ pausedChats'[p] # NoPause
             /\ turns' # turns /\ pausedChats'[p] # pausedChats[p]) =>
                now > pausedChats[p].expiresAt
      ]_vars
\* at the very instant a pause expires, now = expiresAt, a handoff phrase of
\* the paused key has been dropped: the record of the first handoff, with
\* its expiresAt, is still the one in the store and the turn sent nothing
C36_Witness ==
    \E i, j \in 1..Len(turns) :
        /\ i # j
        /\ turns[i].route = "handoff"
        /\ turns[i].pc = "done"
        /\ turns[j].route = "paused"
        /\ turns[j].pc = "done"
        /\ HasHandoffPhrase(j)
        /\ turns[j].log = <<>>
        /\ CleanNumber(turns[i].key) = CleanNumber(turns[j].key)
        /\ pausedChats[CleanNumber(turns[j].key)] # NoPause
        /\ pausedChats[CleanNumber(turns[j].key)].reason = turns[i].text
        /\ pausedChats[CleanNumber(turns[j].key)].pausedAt = 0
        /\ now = pausedChats[CleanNumber(turns[j].key)].expiresAt
        /\ \E n \in 1..Len(turns[i].log) : turns[i].log[n].kind = "admin"

\* C37: at every instant and for every spelling of a key, the listing of
\* getPausedChats at the current clock holds an entry for the key's number
\* exactly when isPaused of the key would answer true at that clock, the
\* instant now = expiresAt included
C37_ListingAgreesWithIsPaused ==
    \A k \in Senders \cup ResumeNumbers :
        (\E e \in GetPausedChats(pausedChats, now) : e.phone = CleanNumber(k))
            <=> IsPausedResult(pausedChats, k, now)
\* one key is at the very instant of its expiry, listed with no minute left
\* and still paused, while the record of the other key has expired and is
\* neither listed nor paused
C37_Witness ==
    \E p, q \in CleanNumbers :
        /\ pausedChats[p] # NoPause
        /\ now = pausedChats[p].expiresAt
        /\ IsPausedResult(pausedChats, p, now)
        /\ \E e \in GetPausedChats(pausedChats, now) :
               e.phone = p /\ e.remainingMinutes = 0
        /\ pausedChats[q] # NoPause
        /\ now > pausedChats[q].expiresAt
        /\ ~IsPausedResult(pausedChats, q, now)
        /\ \A e \in GetPausedChats(pausedChats, now) : e.phone # q

\* C38: every session in the store has a snapshot of at least one question,
\* an index equal to the number of answers recorded, and that index strictly
\* below the number of questions of the snapshot
C38_SessionsWellFormed ==
    \A k \in Senders :
        activeSurveys[k] # NoSurvey =>
            /\ Len(activeSurveys[k].questions) > 0
            /\ activeSurveys[k].currentQuestion = Len(activeSurveys[k].answers)
            /\ activeSurveys[k].currentQuestion < Len(activeSurveys[k].questions)

\* C39: when the append of a completed survey fails, the turn does not
\* raise: its save returns with the survey results as they were, the session
\* of the key is removed and the thank-you text is the one reply of the turn.
\* The answers are not retried and not kept: a turn that has returned takes
\* no further step, and a row enters the survey results only in the
\* returning save of the turn that built it.
C39_FailedSaveStillCompletes ==
    [][/\ \A i \in 1..Len(turns) :
            /\ (SaveReturns(i) /\ responses' = responses) =>
                   /\ activeSurveys'[turns[i].key] = NoSurvey
                   /\ turns'[i].pc = "done"
                   /\ OnlyReply(i, <<"thankYouMessage">>)
            /\ turns[i].pc = "done" => turns'[i] = turns[i]
       /\ responses' # responses =>
            \E i \in 1..Len(turns) :
                /\ SaveReturns(i)
                /\ responses' = Append(responses, turns[i].row)
      ]_vars
\* a survey was answered to its end, its append failed, and the key has its
\* thank-you reply, no session and no row in the survey results
C39_Witness ==
    \E i \in 1..Len(turns) :
        /\ turns[i].route = "survey"
        /\ turns[i].pc = "done"
        /\ Len(turns[i].row) >= 3
        /\ turns[i].log = <<Sent("reply", turns[i].key, <<"thankYouMessage">>, TRUE)>>
        /\ activeSurveys[turns[i].key] = NoSurvey
        /\ responses = <<>>
        /\ \A j \in 1..Len(turns) : turns[j].pc = "done"

\* C40: a turn whose text is the survey keyword, routed for a key that is
\* neither blocked nor paused and has a session, is recorded as the answer
\* to the question the session stands at and starts nothing; and no start
\* that returns puts a new session in the place of one the key has
C40_KeywordNeverRestarts ==
    [][\A i \in 1..Len(turns) :
          LET k == turns[i].key
              survey == activeSurveys[k]
          IN  /\ (RouteStep(i) /\ ~turns'[i].isBlocked /\ ~PausedNow(i)
                   /\ IsKeywordTrigger(turns[i].text) /\ survey # NoSurvey) =>
                    /\ turns'[i].route = "survey"
                    /\ activeSurveys'[k].answers = Append(survey.answers, turns[i].text)
                    /\ activeSurveys'[k].startedAt = survey.startedAt
              /\ (StartReturns(i) /\ survey # NoSurvey) =>
                    activeSurveys'[k] = survey]_vars

====
